---- MODULE Spec2Model ----
(***************************************************************************)
(* Authentication / authorization gate of the West Kingdom Regnum portal.  *)
(*                                                                         *)
(*   utils/auth.py             is_group_member, require_group_membership   *)
(*   utils/auth_middleware.py  check_group_membership, require_auth,       *)
(*                             require_group_auth                          *)
(*   utils/queries.py          get_group_members, generate_mock_members    *)
(*   Home.py, main.py          OAuth callback, token verification, logout  *)
(*   pages/1_Groups.py         public Groups page                          *)
(*   pages/5_Duty_Request.py   page wrapped by require_auth                *)
(*   pages/debug.py            environment toggles                         *)
(*   Home.py: get_flow         OAuth client configuration                  *)
(*   pages/2_Regnum.py         Regnum data entry page                      *)
(*   utils/jwt_auth.py         password login with a signed token          *)
(*                                                                         *)
(* Strings are sequences of symbols.  A symbol is a chunk of characters    *)
(* that the code never splits ("admin", "@", "westkingdom.org", " ").      *)
(* lower() and strip() act on the symbols, so a comparison of two          *)
(* addresses is decided by what the conversions do to them.                *)
(***************************************************************************)
EXTENDS Integers, Sequences, FiniteSets, TLC

VARIABLES
    now,                      \* time.time(), in seconds
    GROUP_MEMBERSHIP_CACHE,   \* utils/auth.py: cache key -> (result, timestamp)
    environ,                  \* os.environ, the variables the gate reads
    lastCall,                 \* the last membership-check call and what it returned
    session_state,            \* st.session_state of the browser session
    query_params,             \* st.query_params of the current URL
    idp,                      \* identity provider: state of the issued identity token
    rerun,                    \* script to run again after st.rerun(), or "none"
    lastRun,                  \* what the last script run did
    files,                    \* the client-secrets files that exist
    threads,                  \* concurrent calls of is_group_member, step by step
    puts,                     \* the cache writes of those calls, in order
    jwt_state,                \* st.session_state: the keys of the password login
    lastAuth                  \* the last call of utils/jwt_auth.py and what it returned

resolverVars == <<now, GROUP_MEMBERSHIP_CACHE, environ, lastCall>>
guardVars    == <<session_state, query_params, idp, rerun, lastRun,
                  files, threads, puts, jwt_state, lastAuth>>
vars         == <<now, GROUP_MEMBERSHIP_CACHE, environ, lastCall,
                  session_state, query_params, idp, rerun, lastRun,
                  files, threads, puts, jwt_state, lastAuth>>

----------------------------------------------------------------------------
(* Bounds of the model.                                                    *)

\* the clock advances in steps of ClockStep seconds, up to MaxTime
ClockStep == 100
MaxTime == 300

----------------------------------------------------------------------------
(* Strings.                                                                *)

\* str.lower() on one symbol
LowerSym(c) ==
    CASE c = "ADMIN" -> "admin"
      [] c = "Admin" -> "admin"
      [] c = "WestKingdom.org" -> "westkingdom.org"
      [] c = "00KGCV8K1R9IDKY" -> "00kgcv8k1r9idky"
      [] c = "TRUE" -> "true"
      [] c = "True" -> "true"
      [] OTHER -> c

\* str.lower()
Lower(s) == [i \in 1..Len(s) |-> LowerSym(s[i])]

RECURSIVE LStrip(_)
LStrip(s) == IF s # <<>> /\ Head(s) = " " THEN LStrip(Tail(s)) ELSE s

RECURSIVE RStrip(_)
RStrip(s) ==
    IF s # <<>> /\ s[Len(s)] = " " THEN RStrip(SubSeq(s, 1, Len(s) - 1)) ELSE s

\* str.strip()
Strip(s) == RStrip(LStrip(s))

\* str.endswith(suffix)
EndsWith(s, suffix) ==
    /\ Len(s) >= Len(suffix)
    /\ SubSeq(s, Len(s) - Len(suffix) + 1, Len(s)) = suffix

\* '@westkingdom.org'
OrgSuffix == <<"@", "westkingdom.org">>

\* addresses and group ids the calls are made with
EAdmin    == <<"admin", "@", "westkingdom.org">>
EAdminVar == <<"ADMIN", "@", "WestKingdom.org", " ">>
EOutsider == <<"x", "@", "gmail.com">>
EEmpty    == <<>>
EBlank    == <<" ">>

\* utils/config.py: REGNUM_ADMIN_GROUP (its default)
REGNUM_ADMIN_GROUP == <<"00kgcv8k1r9idky">>
GAdminVar == <<" ", "00KGCV8K1R9IDKY">>
GEmpty    == <<>>

\* the (email, group_id) pairs is_group_member is called with
CallArgs ==
    {<<e, REGNUM_ADMIN_GROUP>> : e \in {EAdmin, EAdminVar, EEmpty, EBlank}}
    \cup {<<EAdmin, g>> : g \in {GAdminVar, GEmpty}}

----------------------------------------------------------------------------
(* os.environ                                                              *)

\* a variable that is not set
Unset == <<"<unset>">>

\* os.environ.get(name, default)
EnvGet(env, name, default) ==
    IF env[name] = Unset THEN default ELSE env[name]

\* bypass_check without .lower(): only the exact value 'true' enables it
bypass_check_case_sensitive(env) ==
    EnvGet(env, "BYPASS_GROUP_CHECK", <<>>) = <<"true">>

\* utils/auth.py:133   os.environ.get('BYPASS_GROUP_CHECK', '').lower() == 'true'
bypass_check(env) ==
    Lower(EnvGet(env, "BYPASS_GROUP_CHECK", <<>>)) = <<"true">>

----------------------------------------------------------------------------
(* The directory as one call of is_group_member sees it.  The answers are  *)
(* inputs of the call: the directory is a remote service.                  *)

\* outcome of service.members().get(...).execute()
\*   "found"             the member record is returned
\*   "404" "403" ...     HttpError with that status
\*   "exc"               an exception that is no HttpError (transport)
\*   "-"                 the request is not made
GetOutcomes == {"found", "404", "403", "500", "exc"}

\* a member record without an 'email' key
NoEmail == <<"<no email>">>

\* member.get('email', '')
MemberEmail(m) == IF m = NoEmail THEN <<>> ELSE m

\* the listing that is not requested
NoListing == [pages |-> <<>>, err |-> "-"]

\* outcome of the paginated members().list(...): the pages that are
\* returned, and the error of the request after them ("none": the last
\* page carries no continuation cursor)
Listings ==
    { [pages |-> <<<<>>>>, err |-> "none"],
      [pages |-> <<<<<<"Admin", "@", "WestKingdom.org">>>>>>, err |-> "none"],
      [pages |-> <<<<EOutsider>>, <<EAdmin>>>>, err |-> "none"],
      [pages |-> <<<<NoEmail>>>>, err |-> "none"],
      [pages |-> <<<<EAdmin>>>>, err |-> "403"],
      [pages |-> <<>>, err |-> "500"],
      [pages |-> <<>>, err |-> "exc"] }

\* the answers one call gets: service (FALSE: get_directory_service()
\* returns None), direct lookup, and the listing after a 404
DirectoryAnswers ==
    {[service |-> FALSE, get |-> "-", list |-> NoListing]}
    \cup {[service |-> TRUE, get |-> g, list |-> NoListing] :
              g \in GetOutcomes \ {"404"}}
    \cup {[service |-> TRUE, get |-> "404", list |-> l] : l \in Listings}

RECURSIVE Concat(_)
\* members.extend(current_members), over all pages
Concat(pages) == IF pages = <<>> THEN <<>> ELSE Head(pages) \o Concat(Tail(pages))

----------------------------------------------------------------------------
(* utils/auth.py: the membership cache and is_group_member                 *)

\* utils/auth.py:23
GROUP_MEMBERSHIP_CACHE_TTL == 300

\* utils/auth.py:153   f"{email}:{group_id}"
cache_key(email, group_id) == email \o <<":">> \o group_id

\* what a call returns, with what it did on the way:
\*   result   the boolean returned
\*   source   the return statement that produced it
\*   cache    GROUP_MEMBERSHIP_CACHE after the call
\*   svc, gets, lists   calls of get_directory_service, members().get,
\*                      members().list / list_next requests executed
Outcome(result, source, cache, svc, gets, lists) ==
    [result |-> result, source |-> source, cache |-> cache,
     svc |-> svc, gets |-> gets, lists |-> lists]

\* cache_valid with the age compared by <= (an entry of age TTL is still used)
cache_valid_inclusive(cache, key, t) ==
    /\ key \in DOMAIN cache
    /\ t - cache[key].timestamp <= GROUP_MEMBERSHIP_CACHE_TTL

\* utils/auth.py:154-161   the entry is used only while its age is below the TTL
cache_valid(cache, key, t) ==
    /\ key \in DOMAIN cache
    /\ t - cache[key].timestamp < GROUP_MEMBERSHIP_CACHE_TTL

\* cache_put that stores nothing
cache_put_dropped(cache, key, value, t) == cache

\* GROUP_MEMBERSHIP_CACHE[cache_key] = (value, time.time())
cache_put(cache, key, value, t) ==
    (key :> [result |-> value, timestamp |-> t]) @@ cache

\* email_in_members comparing the listed addresses as they are spelled
email_in_members_case_sensitive(email, members) ==
    \E i \in 1..Len(members) : MemberEmail(members[i]) = email

\* utils/auth.py:228-231   any(member.get('email', '').lower() == email.lower() ...)
email_in_members(email, members) ==
    \E i \in 1..Len(members) : Lower(MemberEmail(members[i])) = Lower(email)

\* nested_lookup that stores False when the listing fails
nested_lookup_caching_failure(email, key, cache, t, d) ==
    LET listing == d.list
        n == Len(listing.pages)
    IN  IF listing.err = "none"
        THEN LET is_member == email_in_members(email, Concat(listing.pages))
             IN  Outcome(is_member, "nested",
                         cache_put(cache, key, is_member, t), 1, 1, n)
        ELSE Outcome(FALSE, "nested_error",
                     cache_put(cache, key, FALSE, t), 1, 1, n + 1)

\* utils/auth.py:194-250   the nested-inclusive listing, page by page
nested_lookup(email, key, cache, t, d) ==
    LET listing == d.list
        n == Len(listing.pages)
    IN  IF listing.err = "none"
        THEN LET is_member == email_in_members(email, Concat(listing.pages))
             IN  Outcome(is_member, "nested",
                         cache_put(cache, key, is_member, t), 1, 1, n)
        ELSE IF listing.err \in {"401", "403"}
        THEN Outcome(FALSE, "nested_denied", cache, 1, 1, n + 1)
        ELSE IF listing.err = "exc"
        THEN Outcome(FALSE, "unexpected", cache, 1, 1, n + 1)
        ELSE Outcome(FALSE, "nested_error", cache, 1, 1, n + 1)

\* directory_lookup that removes the entry of the key when the lookup fails
directory_lookup_evicting(email, group_id, key, cache, t, d) ==
    LET evicted == [k \in DOMAIN cache \ {key} |-> cache[k]]
    IN  IF ~d.service
        THEN Outcome(FALSE, "no_service", evicted, 1, 0, 0)
        ELSE CASE d.get = "found" ->
                    Outcome(TRUE, "direct", cache_put(cache, key, TRUE, t), 1, 1, 0)
               [] d.get = "404" ->
                    IF d.list.err = "none"
                    THEN nested_lookup(email, key, cache, t, d)
                    ELSE nested_lookup(email, key, evicted, t, d)
               [] OTHER -> Outcome(FALSE, "direct_error", evicted, 1, 1, 0)

\* utils/auth.py:163-257   the lookup in the directory
directory_lookup(email, group_id, key, cache, t, d) ==
    IF ~d.service
    THEN Outcome(FALSE, "no_service", cache, 1, 0, 0)
    ELSE CASE d.get = "found" ->
                Outcome(TRUE, "direct", cache_put(cache, key, TRUE, t), 1, 1, 0)
           [] d.get = "404" -> nested_lookup(email, key, cache, t, d)
           [] d.get \in {"401", "403"} ->
                Outcome(FALSE, "direct_denied", cache, 1, 1, 0)
           [] d.get = "exc" -> Outcome(FALSE, "unexpected", cache, 1, 1, 0)
           [] OTHER -> Outcome(FALSE, "direct_error", cache, 1, 1, 0)

\* is_group_member that looks into the cache before it tests the bypass
is_group_member_cache_first(email, group_id, env, cache, t, d) ==
    LET e == Strip(Lower(email))
        g == Strip(Lower(group_id))
        key == cache_key(e, g)
    IN  IF email # <<>> /\ group_id # <<>> /\ cache_valid(cache, key, t)
        THEN Outcome(cache[key].result, "cache", cache, 0, 0, 0)
        ELSE IF bypass_check(env) /\ email # <<>> /\ EndsWith(Lower(email), OrgSuffix)
        THEN Outcome(TRUE, "bypass", cache, 0, 0, 0)
        ELSE IF email = <<>> \/ group_id = <<>>
        THEN Outcome(FALSE, "invalid", cache, 0, 0, 0)
        ELSE directory_lookup(e, g, key, cache, t, d)

\* utils/auth.py:116-257
is_group_member(email, group_id, env, cache, t, d) ==
    IF bypass_check(env) /\ email # <<>> /\ EndsWith(Lower(email), OrgSuffix)
    THEN Outcome(TRUE, "bypass", cache, 0, 0, 0)
    ELSE IF email = <<>> \/ group_id = <<>>
    THEN Outcome(FALSE, "invalid", cache, 0, 0, 0)
    ELSE LET e == Strip(Lower(email))
             g == Strip(Lower(group_id))
             key == cache_key(e, g)
         IN  IF cache_valid(cache, key, t)
             THEN Outcome(cache[key].result, "cache", cache, 0, 0, 0)
             ELSE directory_lookup(e, g, key, cache, t, d)

----------------------------------------------------------------------------
(* utils/queries.py: the group API, and utils/auth_middleware.py:          *)
(* check_group_membership                                                  *)

\* outcome of requests.get(f"{api_url}/groups/{group_id}/members/"):
\*   "200"        a JSON object with a 'members' list
\*   "200_nokey"  a JSON object without a 'members' key
\*   "404" "500"  raise_for_status() raises HTTPError with that status
\*   "conn"       a RequestException that is no HTTPError (connection, timeout)
\*   "-"          the request is not made
NoApi == [status |-> "-", members |-> <<>>]

ApiAnswers ==
    { [status |-> "200", members |-> <<>>],
      [status |-> "200", members |-> <<<<"Admin", "@", "WestKingdom.org">>>>],
      [status |-> "200", members |-> <<EOutsider, NoEmail>>],
      [status |-> "200_nokey", members |-> <<>>],
      [status |-> "404", members |-> <<>>],
      [status |-> "500", members |-> <<>>],
      [status |-> "conn", members |-> <<>>] }

\* the group name the guards check
RegnumSite == <<"regnum-site">>

\* utils/queries.py:12-46   get_all_groups(): the name -> id mapping read from
\* utils/group_map_simplified.json ({} when the file cannot be read)
GroupMaps == { [name \in {} |-> <<>>], [name \in {RegnumSite} |-> REGNUM_ADMIN_GROUP] }

RECURSIVE RemoveSpaces(_)
\* str.replace(' ', '')
RemoveSpaces(s) ==
    IF s = <<>> THEN <<>>
    ELSE IF Head(s) = " " THEN RemoveSpaces(Tail(s))
    ELSE <<Head(s)>> \o RemoveSpaces(Tail(s))

\* utils/queries.py:108-154
generate_mock_members(group_id, group_name_to_id) ==
    LET mock_members == << <<"member1", "@", "westkingdom.org">>,
                           <<"member2", "@", "westkingdom.org">>,
                           <<"admin", "@", "westkingdom.org">> >>
        names == {n \in DOMAIN group_name_to_id : group_name_to_id[n] = group_id}
    IN  IF names = {} THEN mock_members
        ELSE LET group_name == CHOOSE n \in names : TRUE
             IN  Append(mock_members,
                        RemoveSpaces(Lower(group_name)) \o <<"@", "westkingdom.org">>)

\* a response of get_group_members: None, or a dict
NoResponse == [none |-> TRUE, has_members |-> FALSE, members |-> <<>>, mock |-> FALSE]
Response(has_members, members, mock) ==
    [none |-> FALSE, has_members |-> has_members, members |-> members, mock |-> mock]

\* utils/queries.py:68-106
get_group_members(group_id, env, group_name_to_id, api) ==
    LET use_mock_data == Lower(EnvGet(env, "USE_MOCK_DATA", <<"true">>)) = <<"true">>
        mock_api_errors == Lower(EnvGet(env, "MOCK_API_ERRORS", <<"true">>)) = <<"true">>
    IN  CASE api.status = "200" -> Response(TRUE, api.members, FALSE)
          [] api.status = "200_nokey" -> Response(FALSE, <<>>, FALSE)
          [] api.status = "404" ->
                IF use_mock_data
                THEN Response(TRUE, generate_mock_members(group_id, group_name_to_id), TRUE)
                ELSE NoResponse
          [] api.status = "conn" ->
                IF mock_api_errors /\ use_mock_data
                THEN Response(TRUE, generate_mock_members(group_id, group_name_to_id), TRUE)
                ELSE NoResponse
          [] OTHER -> NoResponse

\* what check_group_membership / is_member_of_group return
Verdict(result, source) == [result |-> result, source |-> source]

\* utils/auth_middleware.py:22-67
check_group_membership(email, group_name, env, group_name_to_id, api) ==
    IF group_name \notin DOMAIN group_name_to_id
    THEN Verdict(FALSE, "no_group")
    ELSE LET group_id == group_name_to_id[group_name]
             response == get_group_members(group_id, env, group_name_to_id, api)
         IN  IF response.none \/ ~response.has_members
             THEN Verdict(FALSE, "no_members")
             ELSE IF \E i \in 1..Len(response.members) :
                        Lower(MemberEmail(response.members[i])) = Lower(email)
             THEN Verdict(TRUE, IF response.mock THEN "mock" ELSE "listed")
             ELSE Verdict(FALSE, IF response.mock THEN "mock" ELSE "listed")

\* outcome of requests.post / requests.delete followed by
\* raise_for_status(): a 2xx status, HTTPError with a status, a connection
\* error, a timeout (all three are RequestException)
WriteStatuses == {"200", "404", "500", "conn", "timeout"}

\* utils/queries.py:178-208
add_member_to_group(env, status) ==
    LET use_mock_data == Lower(EnvGet(env, "USE_MOCK_DATA", <<"true">>)) = <<"true">>
    IN  IF status = "200" THEN Verdict(TRUE, "api")
        ELSE IF use_mock_data THEN Verdict(TRUE, "mock")
        ELSE Verdict(FALSE, "api_error")

\* utils/queries.py:210-237
remove_member_from_group(env, status) ==
    LET use_mock_data == Lower(EnvGet(env, "USE_MOCK_DATA", <<"true">>)) = <<"true">>
    IN  IF status = "200" THEN Verdict(TRUE, "api")
        ELSE IF use_mock_data THEN Verdict(TRUE, "mock")
        ELSE Verdict(FALSE, "api_error")

\* symbols made only of the characters [a-zA-Z0-9._%+-]
LocalPartSymbols == {"admin", "Admin", "ADMIN", "x", "b", "new", "invalid-email"}

\* utils/queries.py:239-253   re.match(r'^[a-zA-Z0-9._%+-]+@westkingdom\.org$',
\* email, re.IGNORECASE); '$' also matches before a newline that ends the string
is_valid_email(email) ==
    LET e == IF email # <<>> /\ email[Len(email)] = "\n"
             THEN SubSeq(email, 1, Len(email) - 1) ELSE email
        n == Len(e)
    IN  /\ n >= 3
        /\ \A i \in 1..(n - 2) : e[i] \in LocalPartSymbols
        /\ e[n - 1] = "@"
        /\ LowerSym(e[n]) = "westkingdom.org"

----------------------------------------------------------------------------
(* Home.py: is_member_of_group                                             *)

\* Home.py:106-171   (credentials=None: the service account is used)
is_member_of_group(email, group_id, d) ==
    IF ~d.service THEN Verdict(FALSE, "no_service")
    ELSE CASE d.get = "found" -> Verdict(TRUE, "direct")
           [] d.get = "404" ->
                \* one request of the listing: the first page only
                IF d.list.pages = <<>>
                THEN Verdict(FALSE, "nested_error")
                ELSE Verdict(\E i \in 1..Len(d.list.pages[1]) :
                                 Lower(MemberEmail(d.list.pages[1][i])) = Lower(email),
                             "nested")
           [] OTHER -> Verdict(FALSE, "direct_error")

----------------------------------------------------------------------------
(* The browser session and the OAuth handshake (Home.py, main.py,          *)
(* utils/auth_middleware.py, utils/auth.py: require_group_membership).     *)

\* a key that is not in st.session_state
Absent == <<"<absent>">>

\* the identities the provider signs tokens for: the claims of the ID token
\* ('hd' is missing for an account outside a hosted domain)
Identities ==
    { [email |-> EAdmin, hd |-> <<"westkingdom.org">>],
      [email |-> EOutsider, hd |-> <<>>] }

\* st.session_state['credentials']: flow.credentials, with its ID token
NoCredentials == [present |-> FALSE, email |-> <<>>, hd |-> <<>>]
Credentials(i) == [present |-> TRUE, email |-> i.email, hd |-> i.hd]

\* the session of a browser that has not been here before
EmptySession ==
    [credentials |-> NoCredentials, user_email |-> Absent, is_admin |-> "absent"]

\* st.query_params: empty, or ?code=...
NoParams == [k \in {} |-> ""]
WithCode == [k \in {"code"} |-> "c1"]

\* st.rerun(): the script that runs again, and why
NoRerun == [page |-> "none", cause |-> "-"]
Rerun(page, cause) == [page |-> page, cause |-> cause]

Bool(b) == IF b THEN "true" ELSE "false"

\* the message of st.error / st.warning that names a group and a contact
NoMessage == [group |-> <<>>, contact |-> <<>>]

\* what a script run did:
\*   page            the script
\*   cause           why it runs, when st.rerun() started it
\*   creds_at_start  'credentials' in st.session_state when it started
\*   code_at_start   'code' in st.query_params when it started
\*   code_left       'code' in st.query_params when it ended
\*   token           the identity token of the session when it started:
\*                   "none", "valid" or "expired"
\*   verify          outcome of id_token.verify_oauth2_token and of
\*                   verify_organization in this run: "-" (not called),
\*                   "ok", "wrong_org", "invalid" (ValueError), "error"
\*   exchange        flow.fetch_token: "none", "ok", "failed"
\*   auth_url        flow.authorization_url() was called
\*   executed        times the wrapped function / page body was executed
\*   arg, called_with, ret   argument given to the wrapper, argument the
\*                   function received, value the wrapper returned
\*   group           the group the guard requires
\*   member          result of the membership check of this run, or "-"
\*   admin           is_admin as stored by this run, or "-"
\*   bypass          BYPASS_GROUP_CHECK was on
\*   override        an override checkbox was ticked and used
\*   message         the access-denied message
\*   operation       what a management page did for the user: "view",
\*                   "add", "remove", "none", or "-"
\*   form_email      the address of the add-member form submitted in this
\*                   run, add_email the address add_member_to_group got
\*   email_sent      what send_registration_email returned, or "-"
\*   calls           the requests of a management page, in order
\*   outcome         "content", "login", "not_logged_in", "denied",
\*                   "wrong_org", "error", "rerun", "config_error",
\*                   "no_groups", "changed", "failed", "rejected"
NoRun ==
    [page |-> "none", cause |-> "-", creds_at_start |-> FALSE,
     code_at_start |-> FALSE, code_left |-> FALSE, token |-> "none",
     verify |-> "-", exchange |-> "none", auth_url |-> FALSE,
     executed |-> 0, arg |-> 0, called_with |-> 0, ret |-> 0,
     group |-> <<>>, member |-> "-", admin |-> "-", bypass |-> FALSE, override |-> FALSE,
     message |-> NoMessage, operation |-> "-", form_email |-> Absent,
     add_email |-> Absent, email_sent |-> "-", calls |-> <<>>, outcome |-> "-"]

\* Home.py:17-20, main.py:11-14
SECRET_CREDENTIALS_PATH == "/oauth/google_credentials.json"
LOCAL_CREDENTIALS_PATH == "utils/google_credentials.json"

\* the ways the application is deployed: the secret mounted as a file, the
\* client id and secret in the environment, neither, only the client id
Deployments ==
    { [files |-> {SECRET_CREDENTIALS_PATH}, client_id |-> Unset, client_secret |-> Unset],
      [files |-> {}, client_id |-> <<"id">>, client_secret |-> <<"secret">>],
      [files |-> {}, client_id |-> Unset, client_secret |-> Unset],
      [files |-> {}, client_id |-> <<"id">>, client_secret |-> Unset] }

\* get_flow that takes the environment for configured without looking
get_flow_unchecked(fs, env) ==
    IF SECRET_CREDENTIALS_PATH \in fs \/ LOCAL_CREDENTIALS_PATH \in fs
    THEN "file" ELSE "env"

\* Home.py:23-74   get_flow: where the OAuth client configuration comes
\* from, or "error" (st.error and st.stop())
get_flow(fs, env) ==
    IF SECRET_CREDENTIALS_PATH \in fs \/ LOCAL_CREDENTIALS_PATH \in fs
    THEN "file"
    ELSE IF /\ EnvGet(env, "GOOGLE_CLIENT_ID", <<>>) # <<>>
            /\ EnvGet(env, "GOOGLE_CLIENT_SECRET", <<>>) # <<>>
    THEN "env"
    ELSE "error"

\* main.py:16-37, pages/5_Duty_Request.py:12-28   the flow is built from
\* the mounted file if it exists, else from the local path; a missing
\* file ends the run (st.error and st.stop())
flow_from_file(fs) ==
    LET credentials_path == IF SECRET_CREDENTIALS_PATH \in fs
                            THEN SECRET_CREDENTIALS_PATH
                            ELSE LOCAL_CREDENTIALS_PATH
    IN  IF credentials_path \in fs THEN "file" ELSE "error"

\* the threads that run scripts at the same time
Threads == {1, 2}

\* a thread that is not inside is_group_member
\*   pc        the line the thread is about to execute
\*   read      the tuple it read at line 155, read_at the time of the read
\*   answer    what the directory's direct lookup answered to this call
\*   answered_at    the time the directory answered this call
\*   value, stamp   the tuple (value, time.time()) it is about to store
\*   result    what the call returned ("KeyError": line 155 raised)
IdleThread ==
    [pc |-> "idle", read |-> [result |-> FALSE, timestamp |-> 0], read_at |-> 0,
     answer |-> "-", answered_at |-> 0, value |-> FALSE, stamp |-> 0,
     result |-> "-", source |-> "-", calls |-> 0]
ThreadsIdle == [t \in Threads |-> IdleThread]

\* utils/jwt_auth.py:10-12
JWT_SECRET == "your-secret-key-change-in-production"
JWT_EXPIRATION_HOURS == 24

\* no token: 'jwt_token' is not in st.session_state
NoToken ==
    [present |-> FALSE, email |-> <<>>, name |-> "-", role |-> "-", exp |-> 0,
     secret |-> "-"]

\* the keys of the password login when none of them is set ('user_email'
\* is session_state.user_email)
NoJwt ==
    [jwt_token |-> NoToken, user_name |-> "<absent>", user_role |-> "<absent>",
     is_authenticated |-> "absent"]

\* no call of utils/jwt_auth.py yet
\*   had_token   'jwt_token' was in the session when the call started
\*   ret         "true" / "false", "user" / "none", or "-" (no value:
\*               logout_user, or st.stop() / st.rerun() ended the run)
\*   user        the email of the payload that was returned
NoAuthCall ==
    [fn |-> "none", n |-> 0, had_token |-> FALSE, ret |-> "-", user |-> <<>>]

GuardInit ==
    /\ session_state = EmptySession
    /\ query_params = NoParams
    /\ idp = [token_ok |-> TRUE]
    /\ rerun = NoRerun
    /\ lastRun = NoRun
    /\ threads = ThreadsIdle
    /\ puts = <<>>
    /\ jwt_state = NoJwt
    /\ lastAuth = NoAuthCall

\* Home.py:91-103, main.py:41-51, utils/auth_middleware.py:10-20
verify_organization(idinfo) == idinfo.hd = <<"westkingdom.org">>

\* the callback is handled although the session has credentials
oauth_callback_due_any_session(session, params) == "code" \in DOMAIN params

\* Home.py:184, main.py:59
\*   'code' in query_params and 'credentials' not in st.session_state
oauth_callback_due(session, params) ==
    "code" \in DOMAIN params /\ ~session.credentials.present

\* the function a guard wraps: any function of its argument
WrappedFunc(x) == x + 10
Args == {1, 2}

\* the decision that lets every caller through
membership_denied_never(is_member) == FALSE

\* utils/auth.py:284   if not is_group_member(user_email, group_id)
membership_denied(is_member) == ~is_member

\* utils/auth.py:286
friendly_group_name(group_id) ==
    IF group_id = REGNUM_ADMIN_GROUP THEN RegnumSite ELSE group_id

\* utils/auth.py:290
Webminister == <<"webminister", "@", "westkingdom.org">>

----------------------------------------------------------------------------
(* Calls of the membership check, as the pages and scripts make them.      *)

\* the cache of a freshly started process
EmptyCache == [k \in {} |-> FALSE]

\* the part of the directory's answers that a call consumed
Consumed(d, o) ==
    IF o.svc = 0 THEN [service |-> FALSE, get |-> "-", list |-> NoListing]
    ELSE d

\* what the call found in the cache under its key when it started
SeenInCache(cache, key, t) ==
    IF key \notin DOMAIN cache THEN "absent"
    ELSE IF t - cache[key].timestamp < 300
         THEN (IF cache[key].result THEN "fresh_true" ELSE "fresh_false")
         ELSE (IF cache[key].result THEN "stale_true" ELSE "stale_false")

NoCall ==
    [fn |-> "none", n |-> 0, email |-> <<>>, group_id |-> <<>>,
     answers |-> [service |-> FALSE, get |-> "-", list |-> NoListing],
     api |-> NoApi,
     result |-> FALSE, source |-> "none", svc |-> 0, gets |-> 0, lists |-> 0,
     seen |-> "absent"]

CallRecord(fn, email, group_id, d, o, seen) ==
    [fn |-> fn, n |-> 1 - lastCall.n, email |-> email, group_id |-> group_id,
     answers |-> Consumed(d, o), api |-> NoApi,
     result |-> o.result, source |-> o.source,
     svc |-> o.svc, gets |-> o.gets, lists |-> o.lists, seen |-> seen]

\* a caller invokes is_group_member(email, group_id)
CallIsGroupMember ==
    \E args \in CallArgs, d \in DirectoryAnswers :
        LET email == args[1]
            group_id == args[2]
            o == is_group_member(email, group_id, environ,
                                 GROUP_MEMBERSHIP_CACHE, now, d)
            key == cache_key(Strip(Lower(email)), Strip(Lower(group_id)))
        IN  /\ GROUP_MEMBERSHIP_CACHE' = o.cache
            /\ lastCall' = CallRecord("is_group_member", email, group_id, d, o,
                               SeenInCache(GROUP_MEMBERSHIP_CACHE, key, now))
            /\ UNCHANGED <<now, environ>>
            /\ UNCHANGED guardVars

\* time passes
Tick ==
    /\ now + ClockStep <= MaxTime
    /\ now' = now + ClockStep
    /\ UNCHANGED <<GROUP_MEMBERSHIP_CACHE, environ, lastCall>>
    /\ UNCHANGED guardVars

\* pages/debug.py:81-85   "Toggle Auth Bypass"
ToggleAuthBypass ==
    LET current == Lower(EnvGet(environ, "BYPASS_GROUP_CHECK", <<"false">>)) = <<"true">>
    IN  /\ environ' = [environ EXCEPT !["BYPASS_GROUP_CHECK"] =
                           IF current THEN <<"false">> ELSE <<"true">>]
        /\ UNCHANGED <<now, GROUP_MEMBERSHIP_CACHE, lastCall>>
        /\ UNCHANGED guardVars

\* the values BYPASS_GROUP_CHECK is deployed with
BypassSettings == {Unset, <<"TRUE">>, <<"false">>}

Init ==
    /\ now = 0
    /\ GROUP_MEMBERSHIP_CACHE = EmptyCache
    /\ \E b \in BypassSettings :
          environ = [BYPASS_GROUP_CHECK |-> b, USE_MOCK_DATA |-> Unset,
                     MOCK_API_ERRORS |-> Unset,
                     GOOGLE_CLIENT_ID |-> Unset, GOOGLE_CLIENT_SECRET |-> Unset]
    /\ lastCall = NoCall
    /\ files = {SECRET_CREDENTIALS_PATH}
    /\ GuardInit

Next ==
    \/ CallIsGroupMember
    \/ Tick
    \/ ToggleAuthBypass

Spec == Init /\ [][Next]_vars

\* a caller invokes check_group_membership(email, group_name)
CallCheckGroupMembership ==
    \E email \in {EAdmin, EAdminVar, EOutsider}, m \in GroupMaps, api \in ApiAnswers :
        LET v == check_group_membership(email, RegnumSite, environ, m, api)
        IN  /\ lastCall' = [NoCall EXCEPT
                              !.fn = "check_group_membership",
                              !.n = 1 - lastCall.n,
                              !.email = email,
                              !.group_id = RegnumSite,
                              !.api = IF v.source = "no_group" THEN NoApi ELSE api,
                              !.result = v.result,
                              !.source = v.source]
            /\ UNCHANGED <<now, GROUP_MEMBERSHIP_CACHE, environ>>
            /\ UNCHANGED guardVars

\* a caller invokes is_member_of_group(email, group_id)
CallIsMemberOfGroup ==
    \E email \in {EAdmin, EAdminVar, EOutsider}, d \in DirectoryAnswers :
        LET v == is_member_of_group(email, REGNUM_ADMIN_GROUP, d)
        IN  /\ lastCall' = [NoCall EXCEPT
                              !.fn = "is_member_of_group",
                              !.n = 1 - lastCall.n,
                              !.email = email,
                              !.group_id = REGNUM_ADMIN_GROUP,
                              !.answers = d,
                              !.svc = 1,
                              !.gets = IF d.service THEN 1 ELSE 0,
                              !.lists = IF d.service /\ d.get = "404" THEN 1 ELSE 0,
                              !.result = v.result,
                              !.source = v.source]
            /\ UNCHANGED <<now, GROUP_MEMBERSHIP_CACHE, environ>>
            /\ UNCHANGED guardVars

\* a caller invokes add_member_to_group(group_id, member_email)
CallAddMember ==
    \E email \in {EAdmin, EOutsider}, status \in WriteStatuses :
        LET v == add_member_to_group(environ, status)
        IN  /\ lastCall' = [NoCall EXCEPT
                              !.fn = "add_member_to_group",
                              !.n = 1 - lastCall.n,
                              !.email = email,
                              !.group_id = REGNUM_ADMIN_GROUP,
                              !.api = [status |-> status, members |-> <<>>],
                              !.result = v.result,
                              !.source = v.source]
            /\ UNCHANGED <<now, GROUP_MEMBERSHIP_CACHE, environ>>
            /\ UNCHANGED guardVars

\* a caller invokes remove_member_from_group(group_id, member_email)
CallRemoveMember ==
    \E email \in {EAdmin, EOutsider}, status \in WriteStatuses :
        LET v == remove_member_from_group(environ, status)
        IN  /\ lastCall' = [NoCall EXCEPT
                              !.fn = "remove_member_from_group",
                              !.n = 1 - lastCall.n,
                              !.email = email,
                              !.group_id = REGNUM_ADMIN_GROUP,
                              !.api = [status |-> status, members |-> <<>>],
                              !.result = v.result,
                              !.source = v.source]
            /\ UNCHANGED <<now, GROUP_MEMBERSHIP_CACHE, environ>>
            /\ UNCHANGED guardVars

\* pages/debug.py:75-79   "Toggle Mock Data Mode"
ToggleMockData ==
    LET current == Lower(EnvGet(environ, "USE_MOCK_DATA", <<"false">>)) = <<"true">>
    IN  /\ environ' = [environ EXCEPT !["USE_MOCK_DATA"] =
                           IF current THEN <<"false">> ELSE <<"true">>]
        /\ UNCHANGED <<now, GROUP_MEMBERSHIP_CACHE, lastCall>>
        /\ UNCHANGED guardVars

\* the values USE_MOCK_DATA and MOCK_API_ERRORS are deployed with
MockSettings == {Unset, <<"false">>}

\* the membership checks that keep no state of their own (is_group_member,
\* which keeps the cache, is called under Spec), called in any order in
\* any environment
InitChecks ==
    /\ now = 0
    /\ GROUP_MEMBERSHIP_CACHE = EmptyCache
    /\ \E u \in MockSettings, a \in MockSettings :
          environ = [BYPASS_GROUP_CHECK |-> Unset, USE_MOCK_DATA |-> u,
                     MOCK_API_ERRORS |-> a,
                     GOOGLE_CLIENT_ID |-> Unset, GOOGLE_CLIENT_SECRET |-> Unset]
    /\ lastCall = NoCall
    /\ files = {SECRET_CREDENTIALS_PATH}
    /\ GuardInit

NextChecks ==
    \/ CallCheckGroupMembership
    \/ CallIsMemberOfGroup
    \/ CallAddMember
    \/ CallRemoveMember
    \/ ToggleMockData

SpecChecks == InitChecks /\ [][NextChecks]_vars

----------------------------------------------------------------------------
(* Script runs.  Streamlit runs a script from top to bottom for every      *)
(* request; st.rerun() ends the run and starts the script again, st.stop() *)
(* ends it.  Neither is caught by "except Exception".                      *)

\* the directory answers a page run may meet: direct member, not a member
\* (404 and a listing without the user), refused lookup
GuardAnswers ==
    { [service |-> TRUE, get |-> "found", list |-> NoListing],
      [service |-> TRUE, get |-> "404", list |-> [pages |-> << <<>> >>, err |-> "none"]],
      [service |-> TRUE, get |-> "403", list |-> NoListing] }

\* the group API answers a page run may meet
GuardApiAnswers ==
    { [status |-> "200", members |-> <<<<"Admin", "@", "WestKingdom.org">>>>],
      [status |-> "200", members |-> <<>>],
      [status |-> "404", members |-> <<>>] }

\* flow.fetch_token: credentials for an identity, or an exception
FetchOutcomes ==
    [ok : {TRUE}, identity : Identities] \cup
    { [ok |-> FALSE, identity |-> [email |-> <<>>, hd |-> <<>>]] }

\* a button is pressed only in a run the user started
Clicks == IF rerun.page = "none" THEN BOOLEAN ELSE {FALSE}

\* the run record at the first line of a script
StartRecord(page) ==
    [NoRun EXCEPT
        !.page = page,
        !.cause = rerun.cause,
        !.creds_at_start = session_state.credentials.present,
        !.code_at_start = "code" \in DOMAIN query_params,
        !.token = IF ~session_state.credentials.present THEN "none"
                  ELSE IF idp.token_ok THEN "valid" ELSE "expired",
        !.bypass = bypass_check(environ)]

\* the end of a script run
Finish(session, params, provider, next, cache, record) ==
    /\ session_state' = session
    /\ query_params' = params
    /\ idp' = provider
    /\ rerun' = next
    /\ GROUP_MEMBERSHIP_CACHE' = cache
    /\ lastRun' = [record EXCEPT !.code_left = "code" \in DOMAIN params]
    /\ UNCHANGED <<now, environ, lastCall, files, threads, puts, jwt_state, lastAuth>>

\* the OAuth flow cannot be built: st.error(...) and st.stop()
ConfigError(r) ==
    Finish(session_state, query_params, idp, NoRerun, GROUP_MEMBERSHIP_CACHE,
           [r EXCEPT !.outcome = "config_error"])

\* Home.py:201-218   no credentials: the login link
HomeLogin(r) ==
    Finish(session_state, query_params, idp, NoRerun, GROUP_MEMBERSHIP_CACHE,
           [r EXCEPT !.auth_url = TRUE, !.outcome = "login"])

\* Home.py:220-450   credentials in the session
HomeVerify(r) ==
    LET s == session_state
        id == s.credentials
        without == [s EXCEPT !.credentials = NoCredentials]
    IN  IF ~idp.token_ok
        THEN \* 434-442  ValueError
             Finish(without, NoParams, idp, Rerun("Home", "invalid"),
                    GROUP_MEMBERSHIP_CACHE,
                    [r EXCEPT !.verify = "invalid", !.outcome = "rerun"])
        ELSE \E transport_error \in BOOLEAN, logout \in Clicks :
             IF transport_error
             THEN \* 443-450  Exception
                  IF logout
                  THEN Finish(without, NoParams, idp, Rerun("Home", "logout"),
                              GROUP_MEMBERSHIP_CACHE,
                              [r EXCEPT !.verify = "error", !.outcome = "rerun"])
                  ELSE Finish(s, query_params, idp, NoRerun,
                              GROUP_MEMBERSHIP_CACHE,
                              [r EXCEPT !.verify = "error", !.outcome = "error"])
             ELSE LET s1 == [s EXCEPT !.user_email = id.email]   \* 234
                  IN  IF verify_organization(id)
                      THEN \E d1 \in GuardAnswers, d2 \in GuardAnswers, override \in BOOLEAN :
                           LET \* 283   the call in the debug expander
                               o1 == is_group_member(id.email, REGNUM_ADMIN_GROUP, environ,
                                                     GROUP_MEMBERSHIP_CACHE, now, d1)
                               \* 365
                               o2 == is_group_member(id.email, REGNUM_ADMIN_GROUP, environ,
                                                     o1.cache, now, d2)
                               \* 369-374
                               overridden == EndsWith(id.email, OrgSuffix) /\ override
                               is_admin == o2.result \/ overridden
                               s2 == [s1 EXCEPT !.is_admin = Bool(is_admin)]
                               r2 == [r EXCEPT !.verify = "ok",
                                               !.group = REGNUM_ADMIN_GROUP,
                                               !.member = Bool(o2.result),
                                               !.admin = Bool(is_admin),
                                               !.override = overridden,
                                               !.executed = 1]
                           IN  IF logout
                               THEN \* 416-424
                                    Finish(EmptySession, NoParams, idp,
                                           Rerun("Home", "logout"), o2.cache,
                                           [r2 EXCEPT !.outcome = "rerun"])
                               ELSE Finish(s2, query_params, idp, NoRerun, o2.cache,
                                           [r2 EXCEPT !.outcome = "content"])
                      ELSE \* 425-432
                           IF logout
                           THEN Finish([s1 EXCEPT !.credentials = NoCredentials],
                                       NoParams, idp, Rerun("Home", "logout"),
                                       GROUP_MEMBERSHIP_CACHE,
                                       [r EXCEPT !.verify = "wrong_org", !.outcome = "rerun"])
                           ELSE Finish(s1, query_params, idp, NoRerun,
                                       GROUP_MEMBERSHIP_CACHE,
                                       [r EXCEPT !.verify = "wrong_org",
                                                 !.outcome = "wrong_org"])

\* a request for Home.py
HomeRun ==
    /\ rerun.page \in {"none", "Home"}
    /\ LET r == StartRecord("Home")
       IN  IF get_flow(files, environ) = "error"
           THEN \* 76-88
                ConfigError(r)
           ELSE
           IF oauth_callback_due(session_state, query_params)
           THEN \* 184-195
                \E f \in FetchOutcomes :
                    IF f.ok
                    THEN Finish([session_state EXCEPT
                                    !.credentials = Credentials(f.identity)],
                                NoParams, [token_ok |-> TRUE],
                                Rerun("Home", "login"), GROUP_MEMBERSHIP_CACHE,
                                [r EXCEPT !.exchange = "ok", !.outcome = "rerun"])
                    ELSE IF session_state.credentials.present
                         THEN HomeVerify([r EXCEPT !.exchange = "failed"])
                         ELSE HomeLogin([r EXCEPT !.exchange = "failed"])
           ELSE IF session_state.credentials.present
                THEN HomeVerify(r)
                ELSE HomeLogin(r)

\* main.py:74-81   no credentials: the login link
MainLogin(r) ==
    Finish(session_state, query_params, idp, NoRerun, GROUP_MEMBERSHIP_CACHE,
           [r EXCEPT !.auth_url = TRUE, !.outcome = "login"])

\* main.py:83-132   credentials in the session
MainVerify(r) ==
    LET s == session_state
        id == s.credentials
        without == [s EXCEPT !.credentials = NoCredentials]
    IN  IF ~idp.token_ok
        THEN \* 115-126  ValueError: the login link in the same run
             Finish(without, query_params, idp, NoRerun, GROUP_MEMBERSHIP_CACHE,
                    [r EXCEPT !.verify = "invalid", !.auth_url = TRUE,
                              !.outcome = "login"])
        ELSE \E transport_error \in BOOLEAN, logout \in Clicks :
             LET v == IF transport_error THEN "error"
                      ELSE IF verify_organization(id) THEN "ok" ELSE "wrong_org"
             IN  IF logout
                 THEN \* 104-107, 111-113, 130-132
                      Finish(without, query_params, idp, Rerun("main", "logout"),
                             GROUP_MEMBERSHIP_CACHE,
                             [r EXCEPT !.verify = v, !.outcome = "rerun",
                                       !.executed = IF v = "ok" THEN 1 ELSE 0])
                 ELSE Finish(s, query_params, idp, NoRerun, GROUP_MEMBERSHIP_CACHE,
                             [r EXCEPT !.verify = v,
                                       !.outcome = IF v = "ok" THEN "content" ELSE v,
                                       !.executed = IF v = "ok" THEN 1 ELSE 0])

\* a request for main.py
MainRun ==
    /\ rerun.page \in {"none", "main"}
    /\ LET r == StartRecord("main")
       IN  IF flow_from_file(files) = "error"
           THEN \* 16-37
                ConfigError(r)
           ELSE
           IF oauth_callback_due(session_state, query_params)
           THEN \* 59-70
                \E f \in FetchOutcomes :
                    IF f.ok
                    THEN Finish([session_state EXCEPT
                                    !.credentials = Credentials(f.identity)],
                                NoParams, [token_ok |-> TRUE],
                                Rerun("main", "login"), GROUP_MEMBERSHIP_CACHE,
                                [r EXCEPT !.exchange = "ok", !.outcome = "rerun"])
                    ELSE IF session_state.credentials.present
                         THEN MainVerify([r EXCEPT !.exchange = "failed"])
                         ELSE MainLogin([r EXCEPT !.exchange = "failed"])
           ELSE IF session_state.credentials.present
                THEN MainVerify(r)
                ELSE MainLogin(r)

\* the wrapped function runs once and the wrapper returns what it returned
RunWrapped(r, arg) ==
    [r EXCEPT !.executed = 1, !.called_with = arg, !.ret = WrappedFunc(arg),
              !.outcome = "content"]

\* utils/auth_middleware.py:69-139   a request for a page behind
\* @require_auth(get_flow)  (pages/5_Duty_Request.py:105)
RequireAuthRun ==
    /\ rerun.page \in {"none", "require_auth"}
    /\ LET r == StartRecord("require_auth")
           arg == 0   \* the pages call main() without an argument
           s == session_state
           without == [s EXCEPT !.credentials = NoCredentials]
       IN  IF ~s.credentials.present
           THEN \* 83-102   flow_provider is get_flow of pages/5_Duty_Request.py
                IF flow_from_file(files) = "error"
                THEN ConfigError(r)
                ELSE Finish(s, query_params, idp, NoRerun, GROUP_MEMBERSHIP_CACHE,
                            [r EXCEPT !.auth_url = TRUE, !.outcome = "login"])
           ELSE IF ~idp.token_ok
           THEN \* 113-116, 128-131
                Finish(without, query_params, idp, Rerun("require_auth", "invalid"),
                       GROUP_MEMBERSHIP_CACHE,
                       [r EXCEPT !.verify = "invalid", !.outcome = "rerun"])
           ELSE \E transport_error \in BOOLEAN :
                IF transport_error
                THEN \* 132-135
                     Finish(s, query_params, idp, NoRerun, GROUP_MEMBERSHIP_CACHE,
                            [r EXCEPT !.verify = "error", !.outcome = "error"])
                ELSE IF ~verify_organization(s.credentials)
                THEN \* 119-123
                     Finish(without, query_params, idp,
                            Rerun("require_auth", "wrong_org"), GROUP_MEMBERSHIP_CACHE,
                            [r EXCEPT !.verify = "wrong_org", !.outcome = "rerun"])
                ELSE \* 137
                     Finish(s, query_params, idp, NoRerun, GROUP_MEMBERSHIP_CACHE,
                            RunWrapped([r EXCEPT !.verify = "ok"], arg))

\* utils/auth_middleware.py:141-262   a request for a page behind
\* @require_group_auth(get_flow)  (group_name "regnum-site")
RequireGroupAuthRun ==
    /\ rerun.page \in {"none", "require_group_auth"}
    /\ LET r == StartRecord("require_group_auth")
           arg == 0   \* the pages call main() without an argument
           s == session_state
           without == [s EXCEPT !.credentials = NoCredentials]
       IN  IF ~s.credentials.present
           THEN \* 156-175   flow_provider is get_flow of Home.py
                IF get_flow(files, environ) = "error"
                THEN ConfigError(r)
                ELSE Finish(s, query_params, idp, NoRerun, GROUP_MEMBERSHIP_CACHE,
                            [r EXCEPT !.auth_url = TRUE, !.outcome = "login"])
           ELSE IF ~idp.token_ok
           THEN \* 187-190, 251-254
                Finish(without, query_params, idp,
                       Rerun("require_group_auth", "invalid"), GROUP_MEMBERSHIP_CACHE,
                       [r EXCEPT !.verify = "invalid", !.outcome = "rerun"])
           ELSE \E transport_error \in BOOLEAN :
                IF transport_error
                THEN \* 255-258
                     Finish(s, query_params, idp, NoRerun, GROUP_MEMBERSHIP_CACHE,
                            [r EXCEPT !.verify = "error", !.outcome = "error"])
                ELSE IF ~verify_organization(s.credentials)
                THEN \* 193-197
                     Finish(without, query_params, idp,
                            Rerun("require_group_auth", "wrong_org"),
                            GROUP_MEMBERSHIP_CACHE,
                            [r EXCEPT !.verify = "wrong_org", !.outcome = "rerun"])
                ELSE \E override \in BOOLEAN, m \in GroupMaps, api \in GuardApiAnswers :
                     LET user_email == s.credentials.email
                         v == check_group_membership(user_email, RegnumSite,
                                                     environ, m, api)
                         r1 == [r EXCEPT !.verify = "ok", !.group = RegnumSite]
                     IN  IF EndsWith(user_email, OrgSuffix) /\ override
                         THEN \* 200-238
                              Finish(s, query_params, idp, NoRerun,
                                     GROUP_MEMBERSHIP_CACHE,
                                     RunWrapped([r1 EXCEPT !.override = TRUE], arg))
                         ELSE IF ~v.result
                         THEN \* 241-246
                              Finish(s, query_params, idp, NoRerun,
                                     GROUP_MEMBERSHIP_CACHE,
                                     [r1 EXCEPT !.member = "false",
                                                !.outcome = "denied"])
                         ELSE \* 260
                              Finish(s, query_params, idp, NoRerun,
                                     GROUP_MEMBERSHIP_CACHE,
                                     RunWrapped([r1 EXCEPT !.member = "true"], arg))

\* the groups a page may require: the default of the decorator, and
\* the address of another group
RequiredGroups == {REGNUM_ADMIN_GROUP, <<"officers", "@", "westkingdom.org">>}

\* utils/auth.py:259-296   a request for a page behind
\* @require_group_membership(group_id)
RequireGroupMembershipRun ==
    /\ rerun.page = "none"
    /\ \E arg \in Args, group_id \in RequiredGroups :
       LET r == [StartRecord("require_group_membership") EXCEPT
                    !.arg = arg, !.group = group_id]
           s == session_state
       IN  IF s.user_email = Absent \/ s.user_email = <<>>
           THEN \* 277-279
                Finish(s, query_params, idp, NoRerun, GROUP_MEMBERSHIP_CACHE,
                       [r EXCEPT !.outcome = "not_logged_in"])
           ELSE \E d \in GuardAnswers :
                LET o == is_group_member(s.user_email, group_id, environ,
                                         GROUP_MEMBERSHIP_CACHE, now, d)
                IN  IF membership_denied(o.result)
                    THEN \* 284-291
                         Finish(s, query_params, idp, NoRerun, o.cache,
                                [r EXCEPT !.member = Bool(o.result),
                                          !.message =
                                              [group |-> friendly_group_name(group_id),
                                               contact |-> Webminister],
                                          !.outcome = "denied"])
                    ELSE \* 294
                         Finish(s, query_params, idp, NoRerun, o.cache,
                                RunWrapped([r EXCEPT !.member = Bool(o.result)], arg))

\* what the user does on a management page in one run: nothing, the
\* "Refresh Groups" button, selecting a group (its members are fetched and
\* shown), and with a group selected submitting the add form or pressing
\* "Remove Selected Member".  A run that st.rerun() started repeats the
\* selection but presses nothing.
PageOperations ==
    IF rerun.page = "none"
    THEN {"none", "refresh", "view", "add", "remove"}
    ELSE {"none", "view"}

\* what is typed into the "Member Email" field of a submitted form
FormEmails ==
    { <<>>, EAdmin, <<"Admin", "@", "WestKingdom.org">>, EOutsider,
      <<"invalid-email">>, EAdminVar, <<"admin", "@", "westkingdom.org", "\n">> }

\* add_form_accepts letting every text that is not empty through
add_form_accepts_nonempty(member_email) == member_email # <<>>

\* pages/1_Groups.py:222-229   the checks of a submitted Add Member form
add_form_accepts(member_email) ==
    /\ member_email # <<>>
    /\ is_valid_email(member_email)

\* pages/1_Groups.py:15-286   a request for the Groups page
\*   loaded   get_all_groups() returned groups (34-41)
\*   ok       add_member_to_group / remove_member_from_group returned True
\*            (234, 264)
EPublic == <<"public", "@", "westkingdom.org">>
GroupsRun ==
    /\ rerun.page \in {"none", "Groups"}
    /\ \E loaded \in BOOLEAN :
       \E op \in IF loaded THEN PageOperations ELSE {"none"} :
       \E member_email \in IF op = "add" THEN FormEmails ELSE {Absent} :
       \E ok \in IF op = "remove" \/ (op = "add" /\ add_form_accepts(member_email))
                  THEN BOOLEAN ELSE {TRUE} :
       LET r == [StartRecord("Groups") EXCEPT !.executed = 1]
           s == session_state
           s1 == IF s.user_email = Absent
                 THEN [s EXCEPT !.user_email = EPublic, !.is_admin = "true"]
                 ELSE s
           shown == [r EXCEPT !.calls = IF op = "none" THEN <<>>
                                        ELSE <<"get_group_members">>]
       IN  IF ~loaded
           THEN \* 36-41
                Finish(s1, query_params, idp, NoRerun, GROUP_MEMBERSHIP_CACHE,
                       [r EXCEPT !.outcome = "no_groups"])
           ELSE IF op = "refresh"
           THEN \* 49-51
                Finish(s1, query_params, idp, Rerun("Groups", "refresh"),
                       GROUP_MEMBERSHIP_CACHE,
                       [r EXCEPT !.outcome = "content"])
           ELSE IF op = "add" /\ ~add_form_accepts(member_email)
           THEN \* 186, 222-229: the members are shown, the form is rejected
                Finish(s1, query_params, idp, NoRerun, GROUP_MEMBERSHIP_CACHE,
                       [shown EXCEPT !.operation = "view",
                                     !.form_email = member_email,
                                     !.outcome = "rejected"])
           ELSE IF op = "add"
           THEN \* 186, 230-240
                Finish(s1, query_params, idp,
                       IF ok THEN Rerun("Groups", "add") ELSE NoRerun,
                       GROUP_MEMBERSHIP_CACHE,
                       [shown EXCEPT !.operation = "add",
                                     !.form_email = member_email,
                                     !.add_email = member_email,
                                     !.calls = Append(@, "add_member_to_group"),
                                     !.outcome = IF ok THEN "changed" ELSE "failed"])
           ELSE IF op = "remove"
           THEN \* 186, 259-270
                Finish(s1, query_params, idp,
                       IF ok THEN Rerun("Groups", "remove") ELSE NoRerun,
                       GROUP_MEMBERSHIP_CACHE,
                       [shown EXCEPT !.operation = "remove",
                                     !.calls = Append(@, "remove_member_from_group"),
                                     !.outcome = IF ok THEN "changed" ELSE "failed"])
           ELSE \* 84, 186
                Finish(s1, query_params, idp, NoRerun, GROUP_MEMBERSHIP_CACHE,
                       [shown EXCEPT !.operation = op, !.outcome = "content"])

\* pages/2_Regnum.py:178-193   the checks of a submitted registration form
regnum_form_accepts(sca_name, westkingdom_email) ==
    /\ sca_name
    /\ westkingdom_email # <<>>
    /\ is_valid_email(westkingdom_email)

\* submission_calls adding the member whatever the email service returned
submission_calls_add_always(email_sent) ==
    <<"send_registration_email", "add_member_to_group">>

\* pages/2_Regnum.py:241-270   handle_form_submission: the requests it
\* makes, in order
submission_calls(email_sent) ==
    IF email_sent
    THEN <<"send_registration_email", "add_member_to_group">>
    ELSE <<"send_registration_email">>

\* pages/2_Regnum.py:273-338   a request for the Regnum data entry page
\*   loaded      load_group_data() returned groups (281-289)
\*   displayed   display_group_members returned True (308)
\*   sca_name    the required "SCA Name" field was filled in
\*   sent        send_registration_email returned True (245)
\*   ok          add_member_to_group returned True (254)
RegnumRun ==
    /\ rerun.page \in {"none", "Regnum"}
    /\ \E loaded \in BOOLEAN :
       \E op \in IF loaded THEN PageOperations \ {"refresh", "remove"} ELSE {"none"} :
       \E displayed \in IF op = "none" THEN {TRUE} ELSE BOOLEAN :
       \E sca_name \in IF op = "add" /\ displayed THEN BOOLEAN ELSE {TRUE},
          westkingdom_email \in IF op = "add" /\ displayed THEN FormEmails
                                ELSE {Absent} :
       \E sent \in IF op = "add" /\ displayed
                       /\ regnum_form_accepts(sca_name, westkingdom_email)
                    THEN BOOLEAN ELSE {TRUE} :
       \E ok \in IF op = "add" /\ displayed /\ sent
                     /\ regnum_form_accepts(sca_name, westkingdom_email)
                  THEN BOOLEAN ELSE {TRUE} :
       LET r == [StartRecord("Regnum") EXCEPT !.executed = 1]
           s == session_state
           shown == [r EXCEPT !.operation = "view",
                              !.calls = <<"get_group_members">>]
       IN  IF ~loaded
           THEN \* 285-289
                Finish(s, query_params, idp, NoRerun, GROUP_MEMBERSHIP_CACHE,
                       [r EXCEPT !.outcome = "no_groups"])
           ELSE IF op = "none"
           THEN \* 329-330
                Finish(s, query_params, idp, NoRerun, GROUP_MEMBERSHIP_CACHE,
                       [r EXCEPT !.operation = "none", !.outcome = "content"])
           ELSE IF ~displayed
           THEN \* 308, 119-127: the listing failed, the form is not shown
                Finish(s, query_params, idp, NoRerun, GROUP_MEMBERSHIP_CACHE,
                       [r EXCEPT !.calls = <<"get_group_members">>,
                                 !.outcome = "failed"])
           ELSE IF op = "view"
           THEN \* 308-315
                Finish(s, query_params, idp, NoRerun, GROUP_MEMBERSHIP_CACHE,
                       [shown EXCEPT !.outcome = "content"])
           ELSE IF ~regnum_form_accepts(sca_name, westkingdom_email)
           THEN \* 321-324
                Finish(s, query_params, idp, NoRerun, GROUP_MEMBERSHIP_CACHE,
                       [shown EXCEPT !.form_email = westkingdom_email,
                                     !.outcome = "rejected"])
           ELSE \* 319-320, 241-270
                LET calls == submission_calls(sent)
                    added == \E i \in 1..Len(calls) :
                                 calls[i] = "add_member_to_group"
                IN  Finish(s, query_params, idp,
                           IF added /\ ok THEN Rerun("Regnum", "add") ELSE NoRerun,
                           GROUP_MEMBERSHIP_CACHE,
                           [shown EXCEPT
                               !.operation = IF added THEN "add" ELSE "view",
                               !.form_email = westkingdom_email,
                               !.add_email = IF added THEN westkingdom_email
                                             ELSE Absent,
                               !.email_sent = Bool(sent),
                               !.calls = @ \o calls,
                               !.outcome = IF added /\ ok THEN "changed"
                                           ELSE "failed"])

\* the browser opens the application at a URL: the provider's redirect
\* with ?code=..., that URL again, or the plain address
Navigate ==
    /\ rerun.page = "none"
    /\ \E q \in {NoParams, WithCode} :
          /\ q # query_params
          /\ query_params' = q
    /\ UNCHANGED <<session_state, idp, rerun, lastRun, files, threads, puts, jwt_state, lastAuth>>
    /\ UNCHANGED resolverVars

\* the identity token of the session passes its 'exp'
ExpireToken ==
    /\ rerun.page = "none"
    /\ session_state.credentials.present
    /\ idp.token_ok
    /\ idp' = [idp EXCEPT !.token_ok = FALSE]
    /\ UNCHANGED <<session_state, query_params, rerun, lastRun, files, threads, puts, jwt_state, lastAuth>>
    /\ UNCHANGED resolverVars

\* pages/debug.py:81-85   "Toggle Auth Bypass", between two requests
GuardToggleAuthBypass ==
    /\ rerun.page = "none"
    /\ ToggleAuthBypass

InitGuard ==
    /\ now = 0
    /\ GROUP_MEMBERSHIP_CACHE = EmptyCache
    /\ \E dep \in Deployments :
          /\ files = dep.files
          /\ environ = [BYPASS_GROUP_CHECK |-> <<"false">>, USE_MOCK_DATA |-> Unset,
                        MOCK_API_ERRORS |-> Unset,
                        GOOGLE_CLIENT_ID |-> dep.client_id,
                        GOOGLE_CLIENT_SECRET |-> dep.client_secret]
    /\ lastCall = NoCall
    /\ GuardInit

\* the scripts that handle the sign-in and verify the identity token
NextGuard ==
    \/ HomeRun
    \/ MainRun
    \/ RequireAuthRun
    \/ RequireGroupAuthRun
    \/ Navigate
    \/ ExpireToken
    \/ GuardToggleAuthBypass

SpecGuard == InitGuard /\ [][NextGuard]_vars

\* the sessions Home.py leaves behind: none, a verified member of the
\* organization (Home.py:234, 366), an account of another organization
\* (Home.py:234, 425-432), and a session whose expired credentials were
\* deleted (Home.py:434-442)
SessionsAfterHome ==
    {EmptySession} \cup
    { [credentials |-> Credentials([email |-> EAdmin, hd |-> <<"westkingdom.org">>]),
       user_email |-> EAdmin, is_admin |-> a] : a \in {"true", "false"} } \cup
    { [credentials |-> Credentials([email |-> EOutsider, hd |-> <<>>]),
       user_email |-> EOutsider, is_admin |-> "absent"] } \cup
    { [credentials |-> NoCredentials, user_email |-> EAdmin, is_admin |-> a] :
          a \in {"true", "false"} }

InitPages ==
    /\ now = 0
    /\ GROUP_MEMBERSHIP_CACHE = EmptyCache
    /\ environ = [BYPASS_GROUP_CHECK |-> <<"false">>, USE_MOCK_DATA |-> Unset,
                  MOCK_API_ERRORS |-> Unset,
                  GOOGLE_CLIENT_ID |-> Unset, GOOGLE_CLIENT_SECRET |-> Unset]
    /\ lastCall = NoCall
    /\ files = {SECRET_CREDENTIALS_PATH}
    /\ threads = ThreadsIdle
    /\ puts = <<>>
    /\ jwt_state = NoJwt
    /\ lastAuth = NoAuthCall
    /\ session_state \in SessionsAfterHome
    /\ query_params = NoParams
    /\ idp = [token_ok |-> TRUE]
    /\ rerun = NoRerun
    /\ lastRun = NoRun

\* the pages of a session that has been through Home.py
NextPages ==
    \/ RequireGroupMembershipRun
    \/ GroupsRun
    \/ RegnumRun
    \/ ExpireToken
    \/ GuardToggleAuthBypass

SpecPages == InitPages /\ [][NextPages]_vars

----------------------------------------------------------------------------
(* utils/auth.py:152-241 step by step: scripts of different sessions run   *)
(* in threads of one process and call is_group_member at the same time.    *)
(* A thread may be suspended between any two lines; a read or a write of   *)
(* one dictionary entry is one step of the interpreter.                    *)

\* calls each thread makes
MaxCalls == 2

\* the key all threads ask about
RaceKey == cache_key(Strip(Lower(EAdmin)), Strip(Lower(REGNUM_ADMIN_GROUP)))

\* the test of line 154 always finding the key
cache_has_always(cache, key) == TRUE

\* utils/auth.py:154   cache_key in GROUP_MEMBERSHIP_CACHE
cache_has(cache, key) == key \in DOMAIN cache

\* utils/auth.py:116-150   a thread enters is_group_member(EAdmin,
\* REGNUM_ADMIN_GROUP): no bypass, arguments present, key computed
RaceEnter(t) ==
    /\ threads[t].pc \in {"idle", "done"}
    /\ threads[t].calls < MaxCalls
    /\ ~bypass_check(environ)
    /\ threads' = [threads EXCEPT ![t] =
                      [IdleThread EXCEPT !.pc = "check",
                                         !.calls = threads[t].calls + 1]]
    /\ UNCHANGED <<now, GROUP_MEMBERSHIP_CACHE, environ, lastCall, session_state,
                   query_params, idp, rerun, lastRun, files, puts, jwt_state, lastAuth>>

\* utils/auth.py:154
RaceCheck(t) ==
    /\ threads[t].pc = "check"
    /\ threads' = [threads EXCEPT ![t].pc =
                      IF cache_has(GROUP_MEMBERSHIP_CACHE, RaceKey)
                      THEN "read" ELSE "lookup"]
    /\ UNCHANGED <<now, GROUP_MEMBERSHIP_CACHE, environ, lastCall, session_state,
                   query_params, idp, rerun, lastRun, files, puts, jwt_state, lastAuth>>

\* utils/auth.py:155   cached_result, timestamp = GROUP_MEMBERSHIP_CACHE[cache_key]
\* (outside the try of line 163: a missing key raises KeyError to the caller)
RaceRead(t) ==
    /\ threads[t].pc = "read"
    /\ threads' = [threads EXCEPT ![t] =
                      IF RaceKey \in DOMAIN GROUP_MEMBERSHIP_CACHE
                      THEN [@ EXCEPT !.pc = "test",
                                     !.read = GROUP_MEMBERSHIP_CACHE[RaceKey],
                                     !.read_at = now]
                      ELSE [@ EXCEPT !.pc = "done", !.result = "KeyError",
                                     !.source = "error"]]
    /\ UNCHANGED <<now, GROUP_MEMBERSHIP_CACHE, environ, lastCall, session_state,
                   query_params, idp, rerun, lastRun, files, puts, jwt_state, lastAuth>>

\* utils/auth.py:157-161   the age of the tuple that was read
RaceTest(t) ==
    /\ threads[t].pc = "test"
    /\ threads' = [threads EXCEPT ![t] =
                      IF cache_valid(RaceKey :> threads[t].read, RaceKey, now)
                      THEN [@ EXCEPT !.pc = "done",
                                     !.result = Bool(threads[t].read.result),
                                     !.source = "cache"]
                      ELSE [@ EXCEPT !.pc = "lookup"]]
    /\ UNCHANGED <<now, GROUP_MEMBERSHIP_CACHE, environ, lastCall, session_state,
                   query_params, idp, rerun, lastRun, files, puts, jwt_state, lastAuth>>

\* utils/auth.py:163-257   the directory answers: the call is about to
\* write the cache (177, 233), or returns False without a write
RaceLookup(t) ==
    /\ threads[t].pc = "lookup"
    /\ \E d \in GuardAnswers :
          LET o == directory_lookup(Strip(Lower(EAdmin)),
                                    Strip(Lower(REGNUM_ADMIN_GROUP)),
                                    RaceKey, EmptyCache, now, d)
          IN  threads' = [threads EXCEPT ![t] =
                  IF RaceKey \in DOMAIN o.cache
                  THEN [@ EXCEPT !.pc = "stamp", !.answer = d.get,
                                 !.answered_at = now,
                                 !.value = o.cache[RaceKey].result]
                  ELSE [@ EXCEPT !.pc = "done", !.answer = d.get,
                                 !.answered_at = now,
                                 !.result = Bool(o.result),
                                 !.source = "lookup"]]
    /\ UNCHANGED <<now, GROUP_MEMBERSHIP_CACHE, environ, lastCall, session_state,
                   query_params, idp, rerun, lastRun, files, puts, jwt_state, lastAuth>>

\* utils/auth.py:178, 234   the right-hand side (value, time.time()) is
\* evaluated
RaceStamp(t) ==
    /\ threads[t].pc = "stamp"
    /\ threads' = [threads EXCEPT ![t] = [@ EXCEPT !.pc = "store", !.stamp = now]]
    /\ UNCHANGED <<now, GROUP_MEMBERSHIP_CACHE, environ, lastCall, session_state,
                   query_params, idp, rerun, lastRun, files, puts, jwt_state, lastAuth>>

\* utils/auth.py:178-179, 234-241   GROUP_MEMBERSHIP_CACHE[cache_key] = ...
\* and the return of the value
RaceStore(t) ==
    /\ threads[t].pc = "store"
    /\ GROUP_MEMBERSHIP_CACHE' =
          cache_put(GROUP_MEMBERSHIP_CACHE, RaceKey, threads[t].value,
                    threads[t].stamp)
    /\ puts' = Append(puts, [thread |-> t, result |-> threads[t].value,
                             timestamp |-> threads[t].stamp,
                             answered_at |-> threads[t].answered_at])
    /\ threads' = [threads EXCEPT ![t] =
                      [@ EXCEPT !.pc = "done", !.result = Bool(threads[t].value),
                                !.source = "lookup"]]
    /\ UNCHANGED <<now, environ, lastCall, session_state,
                   query_params, idp, rerun, lastRun, files, jwt_state, lastAuth>>

InitRace ==
    /\ now = 0
    /\ GROUP_MEMBERSHIP_CACHE = EmptyCache
    /\ environ = [BYPASS_GROUP_CHECK |-> <<"false">>, USE_MOCK_DATA |-> Unset,
                  MOCK_API_ERRORS |-> Unset,
                  GOOGLE_CLIENT_ID |-> Unset, GOOGLE_CLIENT_SECRET |-> Unset]
    /\ lastCall = NoCall
    /\ files = {SECRET_CREDENTIALS_PATH}
    /\ GuardInit

\* threads inside is_group_member, one line at a time, while time passes
NextRace ==
    \/ \E t \in Threads : RaceEnter(t)
    \/ \E t \in Threads : RaceCheck(t)
    \/ \E t \in Threads : RaceRead(t)
    \/ \E t \in Threads : RaceTest(t)
    \/ \E t \in Threads : RaceLookup(t)
    \/ \E t \in Threads : RaceStamp(t)
    \/ \E t \in Threads : RaceStore(t)
    \/ Tick

SpecRace == InitRace /\ [][NextRace]_vars

----------------------------------------------------------------------------
(* utils/jwt_auth.py: the password login.  A token is its payload and the  *)
(* secret it was signed with; times are seconds.                           *)

\* bounds of the password-login specification: the clock moves half a
\* token lifetime at a time, up to two lifetimes
JwtClockStep == 43200
MaxJwtTime == 172800

Karius == <<"karius.hutzelmann", "@", "westkingdom.org">>
RegnumSiteUser == <<"regnum_site", "@", "westkingdom.org">>

\* utils/jwt_auth.py:15-31
USERS_DB ==
    [e \in {Webminister, Karius, RegnumSiteUser} |->
        IF e = Webminister THEN [name |-> "Administrator", role |-> "admin"]
        ELSE IF e = Karius THEN [name |-> "Karius Hutzelmann", role |-> "admin"]
        ELSE [name |-> "Regnum Site", role |-> "admin"]]

\* the addresses typed into the login form: two accounts, and one address
\* that has no account
LoginEmails == {Webminister, Karius, EAdmin}

\* jwt.decode raised, or the function returned None
NoPayload == [ok |-> FALSE, email |-> <<>>, name |-> "-", role |-> "-"]

\* utils/jwt_auth.py:53-65
create_jwt_token(user_email, user_data, t) ==
    [present |-> TRUE, email |-> user_email, name |-> user_data.name,
     role |-> user_data.role, exp |-> t + JWT_EXPIRATION_HOURS * 3600,
     secret |-> JWT_SECRET]

verify_jwt_token_ignoring_expiry(token, t) ==
    IF token.secret = JWT_SECRET
    THEN [ok |-> TRUE, email |-> token.email, name |-> token.name, role |-> token.role]
    ELSE NoPayload

\* utils/jwt_auth.py:67-77: jwt.decode checks the signature, then raises
\* ExpiredSignatureError when exp <= now
verify_jwt_token(token, t) ==
    IF token.secret = JWT_SECRET /\ t < token.exp
    THEN [ok |-> TRUE, email |-> token.email, name |-> token.name, role |-> token.role]
    ELSE NoPayload

\* utils/jwt_auth.py:79-89; password_ok is the outcome of verify_password
authenticate_user(email, password_ok, t) ==
    IF email \in DOMAIN USERS_DB /\ password_ok
    THEN create_jwt_token(email, USERS_DB[email], t)
    ELSE NoToken

\* utils/jwt_auth.py:102-107: the session after clear_session()
ClearedSession(s) == [s EXCEPT !.user_email = Absent]

\* utils/jwt_auth.py:109-121: the outcome of login_user, as
\* [ok, jwt, session]
login_user(email, password_ok, t, js, s) ==
    LET token == authenticate_user(email, password_ok, t)
        user_data == IF token.present THEN verify_jwt_token(token, t) ELSE NoPayload
    IN  IF token.present /\ user_data.ok
        THEN [ok |-> TRUE,
              jwt |-> [jwt_token |-> token, user_name |-> user_data.name,
                       user_role |-> user_data.role, is_authenticated |-> "true"],
              session |-> [s EXCEPT !.user_email = user_data.email]]
        ELSE [ok |-> FALSE, jwt |-> js, session |-> s]

\* utils/jwt_auth.py:91-100: the outcome of get_current_user, as
\* [user, jwt, session]
get_current_user(t, js, s) ==
    IF js.jwt_token.present
    THEN LET user_data == verify_jwt_token(js.jwt_token, t)
         IN  IF user_data.ok
             THEN [user |-> user_data, jwt |-> js, session |-> s]
             ELSE [user |-> NoPayload, jwt |-> NoJwt, session |-> ClearedSession(s)]
    ELSE [user |-> NoPayload, jwt |-> js, session |-> s]

AuthCall(fn, ret, user) ==
    [fn |-> fn, n |-> 1 - lastAuth.n, had_token |-> jwt_state.jwt_token.present,
     ret |-> ret, user |-> user]

jwtUnchanged ==
    UNCHANGED <<now, GROUP_MEMBERSHIP_CACHE, environ, lastCall, query_params, idp,
                lastRun, files, threads, puts>>

\* login_user(email, password)
CallLoginUser ==
    /\ rerun = NoRerun
    /\ \E email \in LoginEmails, password_ok \in BOOLEAN :
          LET r == login_user(email, password_ok, now, jwt_state, session_state)
          IN  /\ jwt_state' = r.jwt
              /\ session_state' = r.session
              /\ lastAuth' = AuthCall("login_user", IF r.ok THEN "true" ELSE "false", <<>>)
    /\ UNCHANGED rerun
    /\ jwtUnchanged

\* logout_user()
CallLogoutUser ==
    /\ rerun = NoRerun
    /\ jwt_state' = NoJwt
    /\ session_state' = ClearedSession(session_state)
    /\ lastAuth' = AuthCall("logout_user", "-", <<>>)
    /\ UNCHANGED rerun
    /\ jwtUnchanged

\* get_current_user()
CallGetCurrentUser ==
    /\ rerun = NoRerun
    /\ LET r == get_current_user(now, jwt_state, session_state)
       IN  /\ jwt_state' = r.jwt
           /\ session_state' = r.session
           /\ lastAuth' = AuthCall("get_current_user",
                                   IF r.user.ok THEN "user" ELSE "none", r.user.email)
    /\ UNCHANGED rerun
    /\ jwtUnchanged

\* is_authenticated()
CallIsAuthenticated ==
    /\ rerun = NoRerun
    /\ LET r == get_current_user(now, jwt_state, session_state)
       IN  /\ jwt_state' = r.jwt
           /\ session_state' = r.session
           /\ lastAuth' = AuthCall("is_authenticated",
                                   IF r.user.ok THEN "true" ELSE "false", <<>>)
    /\ UNCHANGED rerun
    /\ jwtUnchanged

\* require_authentication(), at the top of a page script; a successful
\* login in the form ends the run with st.rerun(), anything else without a
\* user ends it with st.stop()
CallRequireAuthentication ==
    /\ rerun.page \in {"none", "require_authentication"}
    /\ LET r == get_current_user(now, jwt_state, session_state)
       IN  IF r.user.ok
           THEN /\ jwt_state' = r.jwt
                /\ session_state' = r.session
                /\ rerun' = NoRerun
                /\ lastAuth' = AuthCall("require_authentication", "user", r.user.email)
           ELSE \E submit \in BOOLEAN :
                \E email \in IF submit THEN LoginEmails ELSE {Absent} :
                \E password_ok \in IF submit THEN BOOLEAN ELSE {FALSE} :
                   LET l == login_user(email, password_ok, now, r.jwt, r.session)
                   IN  IF submit /\ l.ok
                       THEN /\ jwt_state' = l.jwt
                            /\ session_state' = l.session
                            /\ rerun' = Rerun("require_authentication", "login")
                            /\ lastAuth' = AuthCall("require_authentication", "-", <<>>)
                       ELSE /\ jwt_state' = r.jwt
                            /\ session_state' = r.session
                            /\ rerun' = NoRerun
                            /\ lastAuth' = AuthCall("require_authentication", "-", <<>>)
    /\ jwtUnchanged

\* time passes between two runs
JwtTick ==
    /\ rerun = NoRerun
    /\ now + JwtClockStep <= MaxJwtTime
    /\ now' = now + JwtClockStep
    /\ UNCHANGED <<GROUP_MEMBERSHIP_CACHE, environ, lastCall, session_state,
                   query_params, idp, rerun, lastRun, files, threads, puts,
                   jwt_state, lastAuth>>

InitJwt ==
    /\ now = 0
    /\ GROUP_MEMBERSHIP_CACHE = EmptyCache
    /\ environ = [BYPASS_GROUP_CHECK |-> <<"false">>, USE_MOCK_DATA |-> Unset,
                  MOCK_API_ERRORS |-> Unset,
                  GOOGLE_CLIENT_ID |-> Unset, GOOGLE_CLIENT_SECRET |-> Unset]
    /\ lastCall = NoCall
    /\ files = {SECRET_CREDENTIALS_PATH}
    /\ GuardInit

NextJwt ==
    \/ CallLoginUser
    \/ CallLogoutUser
    \/ CallGetCurrentUser
    \/ CallIsAuthenticated
    \/ CallRequireAuthentication
    \/ JwtTick

SpecJwt == InitJwt /\ [][NextJwt]_vars

----------------------------------------------------------------------------
(* Claims about is_group_member.                                           *)

\* a step in which a membership check was called
CallStep == lastCall' # lastCall

\* the cache key of a recorded call
KeyOf(c) == cache_key(Strip(Lower(c.email)), Strip(Lower(c.group_id)))

\* the entry under key k exists and is younger than 300 seconds at time t
FreshEntry(cache, k, t) == k \in DOMAIN cache /\ t - cache[k].timestamp < 300

\* the directory's answers to call c confirm the membership
DirectoryConfirms(c) ==
    /\ c.answers.service
    /\ \/ c.answers.get = "found"
       \/ /\ c.answers.get = "404"
          /\ c.answers.list.err = "none"
          /\ \E i \in 1..Len(c.answers.list.pages) :
               \E j \in 1..Len(c.answers.list.pages[i]) :
                 Lower(MemberEmail(c.answers.list.pages[i][j]))
                     = Strip(Lower(c.email))

\* a directory call of call c failed: no service, an error status or an
\* exception on the direct lookup, or on a request of the listing
DirectoryFailed(c) ==
    /\ c.svc = 1
    /\ \/ ~c.answers.service
       \/ c.answers.get \in {"401", "403", "500", "exc"}
       \/ c.answers.get = "404" /\ c.answers.list.err # "none"

\* what C1 asks of a call with the bypass flag off, from the state before
\* the call (unprimed) to the call's record (primed)
CacheDecides(c) ==
    LET fresh == FreshEntry(GROUP_MEMBERSHIP_CACHE, KeyOf(c), now)
    IN  /\ (c.source = "cache") <=> fresh
        /\ fresh => /\ c.result = GROUP_MEMBERSHIP_CACHE[KeyOf(c)].result
                    /\ c.svc = 0 /\ c.gets = 0 /\ c.lists = 0
        /\ ~fresh /\ KeyOf(c) \in DOMAIN GROUP_MEMBERSHIP_CACHE =>
                    /\ c.svc = 1
                    /\ c.result = DirectoryConfirms(c)

C2_FailureNotCached ==
    [][ (CallStep /\ lastCall'.fn = "is_group_member") =>
          /\ DirectoryFailed(lastCall') =>
                /\ GROUP_MEMBERSHIP_CACHE' = GROUP_MEMBERSHIP_CACHE
                /\ lastCall'.result = FALSE
          /\ ( /\ lastCall.fn = "is_group_member"
               /\ DirectoryFailed(lastCall)
               /\ lastCall'.email = lastCall.email
               /\ lastCall'.group_id = lastCall.group_id
               /\ ~bypass_check(environ) )
             => /\ lastCall'.source # "cache"
                /\ lastCall'.svc = 1 ]_vars

\* the listing failed on its second page, after a first page that held
\* the address, and the same call had failed right before
C2_Witness ==
    /\ lastCall.fn = "is_group_member"
    /\ lastCall.answers.get = "404"
    /\ lastCall.answers.list.err = "403"
    /\ lastCall.lists = 2
    /\ lastCall.result = FALSE
    /\ KeyOf(lastCall) \notin DOMAIN GROUP_MEMBERSHIP_CACHE

----------------------------------------------------------------------------
(* Claims about the three membership checks.                               *)

\* the data source of call c failed: for is_group_member and
\* is_member_of_group a directory call (DirectoryFailed, and for
\* is_member_of_group the one listing request it makes); for
\* check_group_membership the members request of the group API
SourceFailed(c) ==
    CASE c.fn = "is_group_member" -> DirectoryFailed(c)
      [] c.fn = "is_member_of_group" ->
            \/ ~c.answers.service
            \/ c.answers.get \in {"403", "500", "exc"}
            \/ c.answers.get = "404" /\ c.answers.list.pages = <<>>
      [] c.fn = "check_group_membership" -> c.api.status \in {"404", "500", "conn"}
      [] OTHER -> FALSE

\* C3: fail-closed, uniformly: whenever the member lookup or listing of a
\* membership check (is_group_member, check_group_membership,
\* is_member_of_group) fails, the check returns not-authorized.
C3_FailClosed == SourceFailed(lastCall) => lastCall.result = FALSE

----------------------------------------------------------------------------
(* Claims about the guards and the sign-in.                                *)

\* the scripts whose body runs behind a guard
GuardedPages == {"require_auth", "require_group_auth", "require_group_membership"}

\* C4: a function behind require_group_auth or require_group_membership
\* runs, and Home.py stores is_admin = True, only if the membership check of
\* that request returned true or BYPASS_GROUP_CHECK is on.
C4_MembershipOrBypass ==
    /\ (/\ lastRun.page \in {"require_group_auth", "require_group_membership"}
        /\ lastRun.executed > 0)
          => (lastRun.member = "true" \/ lastRun.bypass)
    /\ (lastRun.page = "Home" /\ lastRun.admin = "true")
          => (lastRun.member = "true" \/ lastRun.bypass)

\* C5: once a request has found that the verified token's hd claim is not
\* westkingdom.org, the session holds neither credentials nor a user email
\* when the request is over.
C5_WrongOrgSessionDestroyed ==
    (/\ rerun.page = "none"
     /\ (lastRun.verify = "wrong_org" \/ lastRun.cause = "wrong_org"))
       => /\ ~session_state.credentials.present
          /\ session_state.user_email = Absent
          /\ lastRun.executed = 0

\* C6: a request for a guarded page made with an expired identity token does
\* not execute the guarded function; it restarts towards the login link.
C6_ExpiredTokenNotExecuted ==
    (lastRun.page \in GuardedPages /\ lastRun.token = "expired")
       => /\ lastRun.executed = 0
          /\ lastRun.outcome \in {"login", "rerun"}

\* C7: a guarded function is executed only in a request that started with
\* credentials in the session and verified their identity token.
C7_ExecutedOnlyWhenVerified ==
    (lastRun.page \in GuardedPages /\ lastRun.executed > 0)
       => (lastRun.creds_at_start /\ lastRun.verify = "ok")

\* C8: behind require_group_membership(group), for a session with a user
\* email: if is_group_member returned true the function ran exactly once
\* with the caller's argument and the wrapper returned its value; if it
\* returned false the function did not run, the message names the group and
\* webminister@westkingdom.org, and the run stopped.
C8_GroupMembershipGuard ==
    (lastRun.page = "require_group_membership" /\ lastRun.outcome # "not_logged_in")
       => IF lastRun.member = "true"
          THEN /\ lastRun.executed = 1
               /\ lastRun.called_with = lastRun.arg
               /\ lastRun.ret = WrappedFunc(lastRun.arg)
               /\ lastRun.message = NoMessage
               /\ lastRun.outcome = "content"
          ELSE /\ lastRun.member = "false"
               /\ lastRun.executed = 0
               /\ lastRun.ret = 0
               /\ lastRun.message.group =
                     (IF lastRun.group = REGNUM_ADMIN_GROUP
                      THEN <<"regnum-site">> ELSE lastRun.group)
               /\ lastRun.message.contact = <<"webminister", "@", "westkingdom.org">>
               /\ lastRun.outcome = "denied"

\* a non-member was refused a page that requires a group other than the
\* default one
C8_Witness ==
    /\ lastRun.page = "require_group_membership"
    /\ lastRun.member = "false"
    /\ lastRun.group # REGNUM_ADMIN_GROUP
    /\ lastRun.arg = 2
    /\ lastRun.outcome = "denied"

\* C9 as stated: a run that starts with credentials in the session makes no
\* token exchange and generates no authorization URL.
C9_NoHandshakeWithCredentials ==
    lastRun.creds_at_start
       => (lastRun.exchange = "none" /\ ~lastRun.auth_url)

\* C9: a run that starts with credentials in the session makes no token
\* exchange, and generates an authorization URL only when the identity
\* token of those credentials failed verification in that run.
C9_NoHandshakeWithValidSession ==
    lastRun.creds_at_start
       => /\ lastRun.exchange = "none"
          /\ lastRun.auth_url => lastRun.verify = "invalid"

\* the code was replayed to a signed-in session, which showed its content
C9_Witness ==
    /\ lastRun.creds_at_start
    /\ lastRun.code_at_start
    /\ lastRun.exchange = "none"
    /\ lastRun.outcome = "content"

\* C10: the run that handled the callback, whether fetch_token succeeded or
\* failed, ends with no 'code' in the query parameters.
C10_CodeRemovedAfterCallback ==
    lastRun.exchange # "none" => ~lastRun.code_left

----------------------------------------------------------------------------
(* Claims about the bypass flag, the nested listing and the cache hit.     *)

\* BYPASS_GROUP_CHECK is set to "true" in any spelling
BypassEnabled == Lower(environ["BYPASS_GROUP_CHECK"]) = <<"true">>

\* the address, compared without regard to case, ends with @westkingdom.org
InOrganization(email) == EndsWith(Lower(email), <<"@", "westkingdom.org">>)

\* C11: with the bypass flag enabled and an address of the organization,
\* is_group_member returns True for every group id, creates no directory
\* service and issues no directory call, whatever the cache holds; the
\* cache is left as it was.
C11_BypassWithoutDirectory ==
    [][ (/\ CallStep
         /\ lastCall'.fn = "is_group_member"
         /\ BypassEnabled
         /\ InOrganization(lastCall'.email))
            => /\ lastCall'.result = TRUE
               /\ lastCall'.svc = 0
               /\ lastCall'.gets = 0
               /\ lastCall'.lists = 0
               /\ GROUP_MEMBERSHIP_CACHE' = GROUP_MEMBERSHIP_CACHE ]_vars

\* the flag was enabled while the cache held a fresh False for the key:
\* the call returned True without a directory call
C11_Witness ==
    /\ lastCall.fn = "is_group_member"
    /\ lastCall.source = "bypass"
    /\ lastCall.seen = "fresh_false"
    /\ lastCall.result = TRUE
    /\ lastCall.svc = 0

\* C12: with the bypass off and no fresh cache entry, a call whose direct
\* lookup answers 404 and whose complete listing holds the address
\* (compared without regard to case) returns True and stores
\* (True, now) under its key.
C12_NestedFallback ==
    [][ (/\ CallStep
         /\ lastCall'.fn = "is_group_member"
         /\ ~BypassEnabled
         /\ lastCall'.email # <<>> /\ lastCall'.group_id # <<>>
         /\ ~FreshEntry(GROUP_MEMBERSHIP_CACHE, KeyOf(lastCall'), now)
         /\ lastCall'.answers.service
         /\ lastCall'.answers.get = "404"
         /\ DirectoryConfirms(lastCall'))
            => /\ lastCall'.result = TRUE
               /\ KeyOf(lastCall') \in DOMAIN GROUP_MEMBERSHIP_CACHE'
               /\ GROUP_MEMBERSHIP_CACHE'[KeyOf(lastCall')]
                     = [result |-> TRUE, timestamp |-> now] ]_vars

\* the address was found in a listing that spells it with capitals
C12_Witness ==
    /\ lastCall.fn = "is_group_member"
    /\ lastCall.source = "nested"
    /\ lastCall.result = TRUE
    /\ lastCall.answers.list.pages = << << <<"Admin", "@", "WestKingdom.org">> >> >>
    /\ KeyOf(lastCall) \in DOMAIN GROUP_MEMBERSHIP_CACHE
    /\ GROUP_MEMBERSHIP_CACHE[KeyOf(lastCall)].result = TRUE

\* C13: when a call that found no entry for its key was answered by the
\* direct lookup (member), the next call with the same arguments, made
\* with the bypass off less than the TTL after the entry was written, finds
\* that entry and is answered from the cache: the two calls made one
\* directory call in total.
C13_SecondCallIsCacheHit ==
    [][ (/\ CallStep
         /\ lastCall.fn = "is_group_member"
         /\ lastCall'.fn = "is_group_member"
         /\ lastCall.source = "direct"
         /\ lastCall.seen = "absent"
         /\ lastCall'.email = lastCall.email
         /\ lastCall'.group_id = lastCall.group_id
         /\ ~BypassEnabled
         /\ KeyOf(lastCall) \in DOMAIN GROUP_MEMBERSHIP_CACHE
               => now - GROUP_MEMBERSHIP_CACHE[KeyOf(lastCall)].timestamp < 300)
            => /\ KeyOf(lastCall) \in DOMAIN GROUP_MEMBERSHIP_CACHE
               /\ lastCall'.source = "cache"
               /\ lastCall'.result = TRUE
               /\ lastCall'.svc = 0
               /\ lastCall.gets + lastCall.lists
                    + lastCall'.gets + lastCall'.lists = 1 ]_vars

\* the second call came later than the first, within the TTL, and was a
\* cache hit
C13_Witness ==
    /\ lastCall.fn = "is_group_member"
    /\ lastCall.source = "cache"
    /\ lastCall.seen = "fresh_true"
    /\ lastCall.result = TRUE
    /\ KeyOf(lastCall) \in DOMAIN GROUP_MEMBERSHIP_CACHE
    /\ now - GROUP_MEMBERSHIP_CACHE[KeyOf(lastCall)].timestamp = 200

----------------------------------------------------------------------------
(* Claims about the listing and about failed lookups.                      *)

\* the address e is on some page of the listing that call c was given
ListedOnSomePage(c, e) ==
    \E i \in 1..Len(c.answers.list.pages) :
        \E j \in 1..Len(c.answers.list.pages[i]) :
            Lower(MemberEmail(c.answers.list.pages[i][j])) = e

\* C14: a membership decision taken from a listing that the directory
\* delivered completely (is_group_member, is_member_of_group) is the
\* decision over all its pages: the call requested every page, and it
\* returned True exactly if the address is on one of them.
C14_CompleteListing ==
    (/\ lastCall.fn \in {"is_group_member", "is_member_of_group"}
     /\ lastCall.source = "nested"
     /\ lastCall.answers.list.err = "none")
       => /\ lastCall.lists = Len(lastCall.answers.list.pages)
          /\ lastCall.result =
                ListedOnSomePage(lastCall,
                    IF lastCall.fn = "is_group_member"
                    THEN Strip(Lower(lastCall.email))
                    ELSE Lower(lastCall.email))

\* the directory answered call c completely and the address is not a member
ConfirmedNonMember(c) ==
    /\ c.svc = 1
    /\ c.answers.service
    /\ c.answers.get = "404"
    /\ c.answers.list.err = "none"
    /\ ~DirectoryConfirms(c)

\* C15: what is_group_member delivers to its caller after a failed lookup
\* differs from what it delivers for a confirmed non-member: of two
\* consecutive calls, one failed and one confirmed negative, the returned
\* values are not the same.
C15_FailureDistinctFromNegative ==
    [][ (/\ CallStep
         /\ lastCall.fn = "is_group_member"
         /\ lastCall'.fn = "is_group_member"
         /\ DirectoryFailed(lastCall)
         /\ ConfirmedNonMember(lastCall'))
            => lastCall'.result # lastCall.result ]_vars

----------------------------------------------------------------------------
(* Claims about logout, configuration, sessions and pages.                 *)

\* C16: when a Logout button has been pressed (the script is about to run
\* again because of it), the session holds no credentials, no user email
\* and no admin flag, and the query parameters are empty.
C16_LogoutDestroysSession ==
    rerun.cause = "logout"
       => /\ session_state = EmptySession
          /\ query_params = NoParams

\* neither client-secrets file exists and GOOGLE_CLIENT_ID,
\* GOOGLE_CLIENT_SECRET are not both set
NoOAuthConfiguration ==
    /\ files = {}
    /\ \/ environ["GOOGLE_CLIENT_ID"] \in {Unset, <<>>}
       \/ environ["GOOGLE_CLIENT_SECRET"] \in {Unset, <<>>}

\* C17: without a client-secrets file and without the pair of environment
\* variables, every run of a script that builds the OAuth flow stops there:
\* it produces no login link, handles no callback, executes nothing behind
\* a guard, and the session stays without credentials and identity.
C17_NoConfigurationStops ==
    NoOAuthConfiguration
       => /\ lastRun.page # "none" =>
                /\ lastRun.outcome = "config_error"
                /\ ~lastRun.auth_url
                /\ lastRun.exchange = "none"
                /\ lastRun.executed = 0
                /\ lastRun.verify = "-"
          /\ session_state = EmptySession
          /\ rerun = NoRerun

\* Home.py was requested with ?code=... in a deployment that has only the
\* client id, and stopped
C17_Witness ==
    /\ NoOAuthConfiguration
    /\ environ["GOOGLE_CLIENT_ID"] # Unset
    /\ lastRun.page = "Home"
    /\ lastRun.code_at_start
    /\ lastRun.outcome = "config_error"

\* the identity of a second session, signed in as another user of the
\* organization; no request of the first session names it
EOther == <<"b", "@", "westkingdom.org">>

\* C18: no step of one session (page runs, expiry of its token, the
\* buttons of the debug page) changes the answer that is_group_member
\* gives to another user's session for that user's own identity and
\* group, whatever the directory answers.
C18_SessionsIsolated ==
    [][ \A d \in GuardAnswers, g \in RequiredGroups :
           is_group_member(EOther, g, environ', GROUP_MEMBERSHIP_CACHE',
                           now', d).result
              = is_group_member(EOther, g, environ, GROUP_MEMBERSHIP_CACHE,
                                now, d).result ]_vars

----------------------------------------------------------------------------
(* Claims about concurrent calls.                                          *)

\* the entry a put stored
EntryOf(p) == [result |-> p.result, timestamp |-> p.timestamp]

\* C19: whatever the interleaving of the calls for one key, the cache
\* holds an entry exactly when a put was executed and the entry is the
\* whole (value, timestamp) pair of the put executed last; a call that
\* returned gave either the value of a pair that some put stored and that
\* was younger than the TTL when the call read it, or the result of its
\* own directory lookup; and no call raised KeyError at line 155.
C19_LastWriteWins ==
    /\ (RaceKey \in DOMAIN GROUP_MEMBERSHIP_CACHE) <=> (puts # <<>>)
    /\ puts # <<>> =>
          GROUP_MEMBERSHIP_CACHE[RaceKey] = EntryOf(puts[Len(puts)])
    /\ \A t \in Threads :
          /\ threads[t].result # "KeyError"
          /\ threads[t].pc = "done" =>
                \/ /\ threads[t].source = "cache"
                   /\ \E i \in 1..Len(puts) : threads[t].read = EntryOf(puts[i])
                   /\ threads[t].result = Bool(threads[t].read.result)
                   /\ threads[t].read_at - threads[t].read.timestamp < 300
                \/ /\ threads[t].source = "lookup"
                   /\ threads[t].result = Bool(threads[t].answer = "found")

\* two calls raced: both looked up, the directory answered them
\* differently, the call that stamped its tuple later stored it first, and
\* a later call returned the pair that was stored last from the cache
C19_Witness ==
    /\ Len(puts) = 2
    /\ puts[1].thread # puts[2].thread
    /\ puts[1].result # puts[2].result
    /\ puts[1].timestamp > puts[2].timestamp
    /\ \E t \in Threads :
          /\ threads[t].pc = "done"
          /\ threads[t].source = "cache"
          /\ threads[t].read = EntryOf(puts[2])

----------------------------------------------------------------------------
(* Claims about the management pages.                                      *)

\* the operations of group management and Regnum data entry
ManagementOperations == {"view", "add", "remove"}

\* C20: a run of the Groups page or of the Regnum data entry page shows
\* the members of a group, adds a member or removes a member only in a
\* session that holds credentials at the start of the run and after a
\* membership check of that run has answered True.
C20_ManagementRestricted ==
    /\ lastRun.page \in {"Groups", "Regnum"}
    /\ lastRun.operation \in ManagementOperations
    => /\ lastRun.creds_at_start
       /\ lastRun.member = "true"

----------------------------------------------------------------------------
(* Claims about the writes to the group API.                               *)

\* C21: add_member_to_group and remove_member_from_group return True only
\* when the request succeeded; when it raised (an error status, a
\* connection error, a timeout) they return False, whatever the
\* environment.
C21_WriteFailureReturnsFalse ==
    /\ lastCall.fn \in {"add_member_to_group", "remove_member_from_group"}
    /\ lastCall.api.status # "200"
    => lastCall.result = FALSE

\* C22: on the Groups page add_member_to_group is called only with the
\* address of a submitted form that is not empty and passes is_valid_email,
\* and a run whose submitted address is empty or fails is_valid_email makes
\* no add call and starts no rerun.
C22_AddOnlyValidated ==
    lastRun.page = "Groups" =>
       /\ \A i \in 1..Len(lastRun.calls) :
             lastRun.calls[i] = "add_member_to_group" =>
                /\ lastRun.add_email = lastRun.form_email
                /\ lastRun.add_email \notin {Absent, <<>>}
                /\ is_valid_email(lastRun.add_email)
       /\ (lastRun.form_email # Absent
              /\ (lastRun.form_email = <<>> \/ ~is_valid_email(lastRun.form_email)))
          => /\ \A i \in 1..Len(lastRun.calls) :
                   lastRun.calls[i] # "add_member_to_group"
             /\ lastRun.add_email = Absent
             /\ rerun = NoRerun

\* an address of the organization written in capitals was submitted,
\* passed the validation and was handed to add_member_to_group, which
\* succeeded: the page is about to run again
C22_Witness ==
    /\ lastRun.page = "Groups"
    /\ lastRun.form_email = <<"Admin", "@", "WestKingdom.org">>
    /\ lastRun.calls = <<"get_group_members", "add_member_to_group">>
    /\ rerun = Rerun("Groups", "add")

\* the positions of a request in the requests of the last run
CallsOf(name) == {i \in 1..Len(lastRun.calls) : lastRun.calls[i] = name}

\* C26: a run of the Regnum data entry page calls add_member_to_group at
\* most once, only after send_registration_email was called and returned
\* True, and never when send_registration_email returned False.
C26_AddAfterEmail ==
    lastRun.page = "Regnum" =>
       /\ Cardinality(CallsOf("add_member_to_group")) <= 1
       /\ \A i \in CallsOf("add_member_to_group") :
             /\ \E j \in CallsOf("send_registration_email") : j < i
             /\ lastRun.email_sent = "true"
       /\ lastRun.email_sent = "false" =>
             /\ CallsOf("add_member_to_group") = {}
             /\ lastRun.add_email = Absent
             /\ rerun = NoRerun

\* a valid registration was submitted, the email service failed, and the
\* run ended without an add call
C26_Witness ==
    /\ lastRun.page = "Regnum"
    /\ lastRun.form_email = EAdmin
    /\ lastRun.email_sent = "false"
    /\ lastRun.calls = <<"get_group_members", "send_registration_email">>

----------------------------------------------------------------------------
(* Claims about the age of cached answers.                                 *)

\* C23: with the bypass off, a True that a call returns from the cache is
\* backed by a directory answer that was less than the TTL old when the
\* call read the cache, also when time passed between the directory's
\* answer and the write of the entry.
C23_StalenessBoundedByTTL ==
    \A t \in Threads :
        (threads[t].pc = "done" /\ threads[t].source = "cache"
            /\ threads[t].result = "true")
        => \E i \in 1..Len(puts) :
               /\ EntryOf(puts[i]) = threads[t].read
               /\ threads[t].read_at - puts[i].answered_at < 300

----------------------------------------------------------------------------
(* Claims about the life of cache entries.                                 *)

\* call c asked the directory and got a complete answer: the direct lookup
\* found the member, or the nested listing was read to its last page
Resolved(c) ==
    /\ c.fn = "is_group_member"
    /\ c.svc = 1
    /\ c.answers.service
    /\ \/ c.answers.get = "found"
       \/ c.answers.get = "404" /\ c.answers.list.err = "none"

\* C24: no step removes a cache key; a call that resolved its question in
\* the directory creates or overwrites the entry of its own normalized key
\* with (its result, the time of the call) and changes no other entry; any
\* other step (a cache hit, a bypass grant, a failed lookup, the clock, the
\* bypass toggle) leaves every entry, expired or not, as it was.
C24_EntriesNeverDeleted ==
    [][ /\ DOMAIN GROUP_MEMBERSHIP_CACHE \subseteq DOMAIN GROUP_MEMBERSHIP_CACHE'
        /\ IF CallStep /\ Resolved(lastCall')
           THEN /\ DOMAIN GROUP_MEMBERSHIP_CACHE' =
                      DOMAIN GROUP_MEMBERSHIP_CACHE \cup {KeyOf(lastCall')}
                /\ GROUP_MEMBERSHIP_CACHE'[KeyOf(lastCall')] =
                      [result |-> lastCall'.result, timestamp |-> now]
                /\ \A k \in DOMAIN GROUP_MEMBERSHIP_CACHE \ {KeyOf(lastCall')} :
                      GROUP_MEMBERSHIP_CACHE'[k] = GROUP_MEMBERSHIP_CACHE[k]
           ELSE GROUP_MEMBERSHIP_CACHE' = GROUP_MEMBERSHIP_CACHE ]_vars

\* a call found an expired entry, its lookup failed, and the expired
\* entry is still in the cache, next to the entry of another key
C24_Witness ==
    /\ lastCall.fn = "is_group_member"
    /\ lastCall.seen \in {"stale_true", "stale_false"}
    /\ DirectoryFailed(lastCall)
    /\ KeyOf(lastCall) \in DOMAIN GROUP_MEMBERSHIP_CACHE
    /\ now - GROUP_MEMBERSHIP_CACHE[KeyOf(lastCall)].timestamp >= 300
    /\ Cardinality(DOMAIN GROUP_MEMBERSHIP_CACHE) = 2

----------------------------------------------------------------------------
(* Claims about the arguments of is_group_member.                          *)

\* C25: in every state, two calls of is_group_member whose emails and
\* group ids are equal after lower-casing and trimming get, for the same
\* directory answers, the same result by the same route and leave the
\* same cache.
C25_NormalizedArguments ==
    \A a \in CallArgs, b \in CallArgs, d \in DirectoryAnswers :
        ( /\ Strip(Lower(a[1])) = Strip(Lower(b[1]))
          /\ Strip(Lower(a[2])) = Strip(Lower(b[2])) )
        => LET oa == is_group_member(a[1], a[2], environ,
                                     GROUP_MEMBERSHIP_CACHE, now, d)
               ob == is_group_member(b[1], b[2], environ,
                                     GROUP_MEMBERSHIP_CACHE, now, d)
           IN  /\ oa.result = ob.result
               /\ oa.source = ob.source
               /\ oa.cache = ob.cache

----------------------------------------------------------------------------
(* Claims about what the cache holds.                                      *)

\* the nested listing of call c was read to its end without an error
ListingCompleted(c) ==
    /\ c.answers.service
    /\ c.answers.get = "404"
    /\ c.answers.list.err = "none"

\* a member record of the listing of call c carries the normalized email
ListedByEmail(c) ==
    \E i \in 1..Len(c.answers.list.pages) :
       \E j \in 1..Len(c.answers.list.pages[i]) :
          /\ c.answers.list.pages[i][j] # NoEmail
          /\ Lower(c.answers.list.pages[i][j]) = Strip(Lower(c.email))

\* C27: an entry is written or changed only by a call of is_group_member
\* for the entry's key that did not take the bypass; True is written only
\* when the direct lookup found the member or the completed listing holds
\* a record with the normalized email, False only when the completed
\* listing holds no such record.
C27_CacheSound ==
    [][ \A k \in DOMAIN GROUP_MEMBERSHIP_CACHE' :
          (k \notin DOMAIN GROUP_MEMBERSHIP_CACHE
              \/ GROUP_MEMBERSHIP_CACHE'[k] # GROUP_MEMBERSHIP_CACHE[k])
          => /\ CallStep
             /\ lastCall'.fn = "is_group_member"
             /\ lastCall'.source # "bypass"
             /\ k = KeyOf(lastCall')
             /\ IF GROUP_MEMBERSHIP_CACHE'[k].result
                THEN \/ lastCall'.answers.service /\ lastCall'.answers.get = "found"
                     \/ ListingCompleted(lastCall') /\ ListedByEmail(lastCall')
                ELSE ListingCompleted(lastCall') /\ ~ListedByEmail(lastCall') ]_vars

----------------------------------------------------------------------------
(* Claims about the bypass and the cache.                                  *)

\* the call before this step was granted by the bypass, and this step
\* repeats it
RepeatsBypassGrant ==
    /\ lastCall.fn = "is_group_member"
    /\ lastCall.source = "bypass"
    /\ lastCall'.email = lastCall.email
    /\ lastCall'.group_id = lastCall.group_id

\* C28: a call that the bypass grants leaves the cache as it was; with the
\* flag on, a fresh cached False for an address of the organization is
\* overridden; and once the flag is off, the repetition of a call that the
\* bypass had granted is decided as if the grant had never happened: by
\* the fresh cache entry if there is one, else by the directory (False
\* without a lookup when the group id is empty).
C28_BypassLeavesNoTrace ==
    [][ (CallStep /\ lastCall'.fn = "is_group_member") =>
          /\ (BypassEnabled /\ InOrganization(lastCall'.email)) =>
                /\ lastCall'.result = TRUE
                /\ GROUP_MEMBERSHIP_CACHE' = GROUP_MEMBERSHIP_CACHE
          /\ (BypassEnabled /\ InOrganization(lastCall'.email)
                /\ FreshEntry(GROUP_MEMBERSHIP_CACHE, KeyOf(lastCall'), now)
                /\ ~GROUP_MEMBERSHIP_CACHE[KeyOf(lastCall')].result) =>
                lastCall'.result = TRUE
          /\ (~BypassEnabled /\ RepeatsBypassGrant) =>
                IF lastCall'.group_id = <<>>
                THEN lastCall'.result = FALSE /\ lastCall'.svc = 0
                ELSE IF FreshEntry(GROUP_MEMBERSHIP_CACHE, KeyOf(lastCall'), now)
                THEN /\ lastCall'.result =
                           GROUP_MEMBERSHIP_CACHE[KeyOf(lastCall')].result
                     /\ lastCall'.svc = 0
                ELSE /\ lastCall'.svc = 1
                     /\ lastCall'.result = DirectoryConfirms(lastCall') ]_vars

\* the bypass granted a call over a fresh cached False, the entry is
\* still there, and the flag has been switched off
C28_Witness ==
    /\ ~BypassEnabled
    /\ lastCall.fn = "is_group_member"
    /\ lastCall.source = "bypass"
    /\ lastCall.result = TRUE
    /\ FreshEntry(GROUP_MEMBERSHIP_CACHE, KeyOf(lastCall), now)
    /\ ~GROUP_MEMBERSHIP_CACHE[KeyOf(lastCall)].result

----------------------------------------------------------------------------
(* Claims about what a session holds.                                      *)

\* C29: after every script run, a session without credentials holds
\* neither a user email nor an admin flag, and a session that holds a user
\* email holds the credentials of that identity, of the organization.
C29_IdentityFollowsCredentials ==
    lastRun.page # "none" =>
       /\ ~session_state.credentials.present =>
             /\ session_state.user_email = Absent
             /\ session_state.is_admin = "absent"
       /\ session_state.user_email # Absent =>
             /\ session_state.credentials.present
             /\ session_state.credentials.email = session_state.user_email
             /\ session_state.credentials.hd = <<"westkingdom.org">>

----------------------------------------------------------------------------
(* C30: the password login.  get_current_user, is_authenticated and        *)
(* require_authentication yield a user only when the session holds a       *)
(* jwt_token whose signature is good and whose expiry lies after the time  *)
(* of the call, and the user is the one of that token; when the stored     *)
(* token fails that test, get_current_user and is_authenticated leave none *)
(* of jwt_token, user_email, user_name, user_role, is_authenticated in the *)
(* session and yield None / False; a login_user that returns False leaves  *)
(* the session as it was.                                                  *)

TokenVerifies ==
    /\ jwt_state.jwt_token.present
    /\ jwt_state.jwt_token.secret = JWT_SECRET
    /\ now < jwt_state.jwt_token.exp

YieldsUser(c) ==
    \/ c.fn \in {"get_current_user", "require_authentication"} /\ c.ret = "user"
    \/ c.fn = "is_authenticated" /\ c.ret = "true"

C30_JwtSessionSound ==
    [][ lastAuth' # lastAuth =>
          /\ YieldsUser(lastAuth') =>
                /\ TokenVerifies
                /\ lastAuth'.fn # "is_authenticated"
                      => lastAuth'.user = jwt_state.jwt_token.email
                /\ UNCHANGED <<jwt_state, session_state>>
          /\ ( /\ lastAuth'.fn \in {"get_current_user", "is_authenticated"}
               /\ jwt_state.jwt_token.present
               /\ ~TokenVerifies )
                => /\ jwt_state' = NoJwt
                   /\ session_state'.user_email = Absent
                   /\ lastAuth'.ret \in {"none", "false"}
          /\ (lastAuth'.fn = "login_user" /\ lastAuth'.ret = "false")
                => UNCHANGED <<jwt_state, session_state>>
      ]_vars

\* get_current_user found an expired token in the session, returned None
\* and left none of the five keys
C30_Witness ==
    /\ lastAuth.fn = "get_current_user"
    /\ lastAuth.had_token
    /\ lastAuth.ret = "none"
    /\ now >= JWT_EXPIRATION_HOURS * 3600
    /\ jwt_state = NoJwt
    /\ session_state.user_email = Absent

====
